---------------------------- MODULE Spec2Model ----------------------------
(***************************************************************************)
(* Replication registry, snapshot serializer and tick engine of the        *)
(* multiplayer game server (NetworkEngine, Replicated, INetworkProtocol).  *)
(***************************************************************************)
EXTENDS Integers, Sequences, FiniteSets, TLC

(***************************************************************************)
(* Bounds of the model.                                                    *)
(***************************************************************************)
\* Number of object addresses the application may construct objects at.
MaxObjects == 3
\* std::numeric_limits<InstanceId>::max(), with InstanceId narrowed from 32
\* bits so that the exhaustion of the counter is within reach.
InstanceIdMax == 4
\* Connections the listening socket accepts before the model stops accepting.
MaxClients == 2
\* Messages the incoming queue holds before the model stops the reader.
MaxIncoming == 2
\* Messages the outgoing queue holds before the model stops starting updates.
MaxOutgoing == 3
\* Direct calls of initializeInstanceId the model makes.
MaxInitializeCalls == 3
\* std::numeric_limits<ClientId>::max(), with ClientId narrowed from 32 bits
\* so that the wrap of the client id counter is within reach.
ClientIdMax == 2
\* Reads with bytes the reader makes while the transport is traced.
MaxReads == 2
\* Calls of send() made while the transport is traced.
MaxSendCalls == 3
\* Iterations of the main loop the model makes.
MaxIterations == 14

\* maxSockets_, the constructor's maxSockets (16 by default).
maxSockets_ == 2
\* The bits of the significand of a double, narrowed from 53 so that sums
\* that are not representable are within reach.
DoubleSignificandBits == 4

(***************************************************************************)
(* Program constants.                                                      *)
(***************************************************************************)
uninitializedInstanceID == 0
\* constexpr float deltaTime = 0.016: the float nearest to 0.016 is an odd
\* multiple of its unit in the last place, and serverTime is counted in
\* that unit; the 24 bits of the multiple are narrowed to 2.
deltaTime == 3
\* The null IReplicatable*.
nullptr == 0

Objects == 1..MaxObjects

\* The addresses an object may be constructed at, those of Objects among them.
Addresses == 1..(2 * MaxObjects)

\* The values of an InstanceId.
InstanceIds == 0..InstanceIdMax

\* TestObject::typeId and TestObjectInt::typeId.
TypeIds == {"TestObject", "TestObjectInt"}

\* The class of the object constructed at an address: the classes of the
\* test suite, alternating over the addresses.
getTypeId(object) == IF object % 2 = 1 THEN "TestObject" ELSE "TestObjectInt"

\* The addresses of the objects of one class, as many as Objects has: they
\* fill one vector of the registry where Objects fills two.
OrderObjects == {object \in Addresses : getTypeId(object) = "TestObject"}

\* Values of the replicated member: testBool {false, true} is 0/1 for a
\* TestObject, testInt is 0/1 for a TestObjectInt.
FieldValues == {0, 1}

VARIABLES
    replicatedObjects_,               \* NetworkEngine: TypeId -> vector<IReplicatable*>
    nextReplicatedObjectInstanceId_,  \* NetworkEngine: the instance id counter
    alive,                            \* which addresses hold a constructed object
    instanceId_,                      \* Replicated::instanceId_ of each object
    member,                           \* testBool / testInt of each object
    lastCall,                         \* the last registry call and how it ended
    initializeCalls,                  \* the calls of initializeInstanceId made so far
    players_,                         \* NetworkEngine: vector<ClientId>
    incomingMessageQueue_,            \* TcpNetworkProtocol: queue<Message>, reader -> tick
    outgoingMessageQueue_,            \* TcpNetworkProtocol: queue<Message>, tick -> writer
    sockets_,                         \* TcpNetworkProtocol: ClientId -> unique_ptr<Socket>
    nextClientId,                     \* TcpNetworkProtocol: the client id counter
    wire,                             \* what the transport has accepted, read, delivered and written
    pc,                               \* where the tick thread is in NetworkEngine::update
    message,                          \* update: the optional<Message> of the last recieve()
    gameState,                        \* update: the serialized registry
    cursor,                           \* update: position of the range-for over players_
    thisUpdate,                       \* what the running update has polled and sent so far
    running,                          \* AbstractServer::running
    paused,                           \* AbstractServer::paused
    serverTime,                       \* AbstractServer::serverTime
    mainPc,                           \* where the main thread is in main and runMainLoop
    loop,                             \* what main and runMainLoop have done so far
    threadPc,                         \* where the reader, the writer and the tick thread are
    locksHeld,                        \* the mutexes each thread holds, in the order it locked them
    scan,                             \* processReceive: its range-for and disconnectedClients
    track,                            \* what the threads have done to the client table so far
    running_,                         \* TcpNetworkProtocol::running_
    destructor                        \* ~TcpNetworkProtocol: the steps it has taken so far

regVars == <<replicatedObjects_, nextReplicatedObjectInstanceId_, alive,
             instanceId_, member, lastCall, initializeCalls>>

netVars == <<incomingMessageQueue_, outgoingMessageQueue_, sockets_, nextClientId,
             wire>>

tickVars == <<players_, pc, message, gameState, cursor, thisUpdate>>

mainVars == <<running, paused, serverTime, mainPc, loop>>

threadVars == <<threadPc, locksHeld, scan, track, running_, destructor>>

\* tickVars but gameState.
tickRest == <<players_, pc, message, cursor, thisUpdate>>

vars == <<replicatedObjects_, nextReplicatedObjectInstanceId_, alive,
          instanceId_, member, lastCall, initializeCalls, players_,
          incomingMessageQueue_,
          outgoingMessageQueue_, sockets_, nextClientId, wire, pc, message,
          gameState, cursor, thisUpdate, running, paused, serverTime, mainPc,
          loop, threadPc, locksHeld, scan, track, running_, destructor>>

(***************************************************************************)
(* Helpers for std::vector and std::unordered_map.                         *)
(***************************************************************************)
Range(s) == {s[i] : i \in 1..Len(s)}

\* std::unordered_map::operator[]: the mapped vector, default-constructed
\* (empty) and inserted when the key is absent.
Subscript(map, typeId) ==
    IF typeId \in DOMAIN map THEN map ELSE map @@ (typeId :> <<>>)

\* Mutant: the last element is moved to the place of the erased one.
StdEraseSwap(vec, object) ==
    IF object \notin {vec[i] : i \in 1..Len(vec)} THEN vec
    ELSE LET at == CHOOSE i \in 1..Len(vec) : vec[i] = object
         IN  [i \in 1..(Len(vec) - 1) |-> IF i = at THEN vec[Len(vec)] ELSE vec[i]]

\* std::erase(vector, value): every element equal to value is removed, the
\* others keep their order.
StdErase(vec, object) == SelectSeq(vec, LAMBDA x : x # object)

\* std::unordered_map::erase(key).
MapErase(map, typeId) == [t \in DOMAIN map \ {typeId} |-> map[t]]

\* The registrations: every (typeId, position) of the map.
Registered == UNION {Range(replicatedObjects_[t]) : t \in DOMAIN replicatedObjects_}

(***************************************************************************)
(* Replicated<Derived>::initializeInstanceId.                              *)
(***************************************************************************)
\* The return value.
initializeInstanceIdReturns(current, instanceId) ==
    current = uninitializedInstanceID

\* Mutant: the id is assigned whatever instanceId_ holds.
initializeInstanceIdValueOverwrites(current, instanceId) == instanceId

\* The value of instanceId_ after the call.
initializeInstanceIdValue(current, instanceId) ==
    IF current = uninitializedInstanceID THEN instanceId ELSE current

\* The record of one call: the object, the argument, the value returned and
\* instanceId_ before and after.
InitializeCall(object, current, instanceId) ==
    [object |-> object, instanceId |-> instanceId,
     returned |-> initializeInstanceIdReturns(current, instanceId),
     before |-> current,
     after |-> initializeInstanceIdValue(current, instanceId)]

(***************************************************************************)
(* NetworkEngine::registerReplicatedObject.                                *)
(***************************************************************************)
\* Mutant: the search of the vector is left out.
RegisterOutcomeNoFind(object, current) ==
    IF object = nullptr THEN "NullHandle"
    ELSE IF nextReplicatedObjectInstanceId_ = InstanceIdMax THEN "IdExhausted"
    ELSE IF initializeInstanceIdReturns(current, nextReplicatedObjectInstanceId_)
         THEN "ok"
    ELSE "AlreadyInitialized"

\* Mutant: the overflow check is left out.
RegisterOutcomeNoOverflow(object, current) ==
    IF object = nullptr THEN "NullHandle"
    ELSE IF object \in Range(Subscript(replicatedObjects_, getTypeId(object))[getTypeId(object)])
         THEN "AlreadyRegistered"
    ELSE IF initializeInstanceIdReturns(current, nextReplicatedObjectInstanceId_)
         THEN "ok"
    ELSE "AlreadyInitialized"

\* The exception the call ends with, or "ok".  `current` is the object's
\* instanceId_ when the call is made.
RegisterOutcome(object, current) ==
    IF object = nullptr THEN "NullHandle"
    ELSE IF nextReplicatedObjectInstanceId_ = InstanceIdMax THEN "IdExhausted"
    ELSE IF object \in Range(Subscript(replicatedObjects_, getTypeId(object))[getTypeId(object)])
         THEN "AlreadyRegistered"
    ELSE IF initializeInstanceIdReturns(current, nextReplicatedObjectInstanceId_)
         THEN "ok"
    ELSE "AlreadyInitialized"

\* The map after the call: operator[] comes after the null and overflow
\* checks, push_back only when the id was initialized.
RegisterMap(object, outcome) ==
    IF outcome \in {"NullHandle", "IdExhausted"} THEN replicatedObjects_
    ELSE LET typeId  == getTypeId(object)
             created == Subscript(replicatedObjects_, typeId)
         IN  IF outcome = "ok"
             THEN [created EXCEPT ![typeId] = Append(@, object)]
             ELSE created

\* Mutant: the counter is not incremented.
RegisterCounterStuck(outcome) == nextReplicatedObjectInstanceId_

\* The counter after the call: the post-increment is evaluated with the
\* argument of initializeInstanceId, whatever that call returns.
RegisterCounter(outcome) ==
    IF outcome \in {"ok", "AlreadyInitialized"}
    THEN nextReplicatedObjectInstanceId_ + 1
    ELSE nextReplicatedObjectInstanceId_

\* The object's instanceId_ after the call.
RegisterInstanceId(current, outcome) ==
    IF outcome \in {"ok", "AlreadyInitialized"}
    THEN initializeInstanceIdValue(current, nextReplicatedObjectInstanceId_)
    ELSE current

\* The calls of initializeInstanceId after the call: one more when the
\* register call got as far as line 43.
RegisterInitializeCalls(object, current, outcome) ==
    IF outcome \in {"ok", "AlreadyInitialized"}
    THEN Append(initializeCalls,
                InitializeCall(object, current, nextReplicatedObjectInstanceId_))
    ELSE initializeCalls

(***************************************************************************)
(* NetworkEngine::unregisterReplicatedObject.                              *)
(***************************************************************************)
\* Mutant: the call leaves the map alone.
UnregisterMapNoErase(object) == replicatedObjects_

UnregisterMap(object) ==
    LET typeId == getTypeId(object)
        erased == [Subscript(replicatedObjects_, typeId)
                      EXCEPT ![typeId] = StdErase(@, object)]
    IN  IF erased[typeId] = <<>> THEN MapErase(erased, typeId) ELSE erased

(***************************************************************************)
(* The record of a registry call.  pre is the map before a register call;  *)
(* an unregister call that directly follows the register call of the same  *)
(* object, not registered before it, carries that map on as pairPre.       *)
(***************************************************************************)
\* No map: a value no registry map equals (its key is no TypeId).
NoMap == [none |-> <<>>]

\* The object is in some vector of the map.
InMap(map, object) == \E t \in DOMAIN map : object \in Range(map[t])

NoCall == [op |-> "none", object |-> nullptr, outcome |-> "ok",
           pre |-> NoMap, preCounter |-> 0, preId |-> 0, pairPre |-> NoMap]

RegisterCall(object, outcome, current) ==
    [op |-> "register", object |-> object, outcome |-> outcome,
     pre |-> replicatedObjects_,
     preCounter |-> nextReplicatedObjectInstanceId_,
     preId |-> current, pairPre |-> NoMap]

UnregisterCall(object) ==
    [op |-> "unregister", object |-> object, outcome |-> "ok",
     pre |-> replicatedObjects_,
     preCounter |-> nextReplicatedObjectInstanceId_,
     preId |-> instanceId_[object],
     pairPre |-> IF /\ lastCall.op = "register"
                    /\ lastCall.object = object
                    /\ ~InMap(lastCall.pre, object)
                 THEN lastCall.pre ELSE NoMap]

(***************************************************************************)
(* msgpack: the atoms the serializer writes.                               *)
(***************************************************************************)
\* The bytes of a TypeId (ASCII).
TypeIdBytes(typeId) ==
    IF typeId = "TestObject"
    THEN <<84, 101, 115, 116, 79, 98, 106, 101, 99, 116>>
    ELSE <<84, 101, 115, 116, 79, 98, 106, 101, 99, 116, 73, 110, 116>>

\* Mutant: an array header where the map header belongs.
pack_map_as_array(n) ==
    IF n < 16 THEN <<144 + n>> ELSE <<220, n \div 256, n % 256>>

\* packer::pack_map(n): fixmap below 16 entries, map 16 above.
pack_map(n) ==
    IF n < 16 THEN <<128 + n>> ELSE <<222, n \div 256, n % 256>>

\* packer::pack_array(n): fixarray below 16 entries, array 16 above.
pack_array(n) ==
    IF n < 16 THEN <<144 + n>> ELSE <<220, n \div 256, n % 256>>

\* packer::pack(std::string_view): fixstr below 32 bytes, str 8 above.
pack_str(bytes) ==
    (IF Len(bytes) < 32 THEN <<160 + Len(bytes)>> ELSE <<217, Len(bytes)>>) \o bytes

\* packer::pack(uint32_t): positive fixint, uint 8, uint 16.
pack_uint32(d) ==
    IF d < 128 THEN <<d>>
    ELSE IF d < 256 THEN <<204, d>>
    ELSE <<205, d \div 256, d % 256>>

\* Mutant: true written for every boolean.
pack_bool_true(b) == <<195>>

\* packer::pack(bool).
pack_bool(b) == IF b THEN <<195>> ELSE <<194>>

\* MSGPACK_DEFINE(testBool) / MSGPACK_DEFINE(testInt): an array of the
\* members listed, here one.
msgpack_pack(object) ==
    pack_array(1) \o
    (IF getTypeId(object) = "TestObject"
     THEN pack_bool(member[object] = 1)
     ELSE pack_uint32(member[object]))

(***************************************************************************)
(* adaptor::pack of the registry map, NetworkEngine::                       *)
(* getReplicatedObjectsSerialized.                                         *)
(***************************************************************************)
\* The instance id and the members of the objects of one vector, in order.
RECURSIVE PackObjects(_)
PackObjects(objects) ==
    IF objects = <<>> THEN <<>>
    ELSE pack_uint32(instanceId_[Head(objects)]) \o msgpack_pack(Head(objects))
         \o PackObjects(Tail(objects))

\* One entry of the outer map: the type id, then a map of its objects.
PackBucket(typeId) ==
    pack_str(TypeIdBytes(typeId))
    \o pack_map(Len(replicatedObjects_[typeId]))
    \o PackObjects(replicatedObjects_[typeId])

RECURSIVE PackBuckets(_)
PackBuckets(order) ==
    IF order = <<>> THEN <<>>
    ELSE PackBucket(Head(order)) \o PackBuckets(Tail(order))

\* The orders in which the unordered_map may be iterated.
BucketOrders ==
    {order \in [1..Cardinality(DOMAIN replicatedObjects_) -> DOMAIN replicatedObjects_] :
        \A i, j \in DOMAIN order : i # j => order[i] # order[j]}

getReplicatedObjectsSerialized(order) ==
    pack_map(Cardinality(DOMAIN replicatedObjects_)) \o PackBuckets(order)

(***************************************************************************)
(* Actions of the application on the registry.  The registry is used by    *)
(* the tick thread only, so never while update() runs.                     *)
(***************************************************************************)
\* Replicated<Derived>::Replicated: a new object, with instanceId_ 0,
\* registers itself; when the registration throws the object is not
\* constructed.
Construct(object) ==
    /\ pc = "idle"
    /\ ~alive[object]
    /\ LET outcome == RegisterOutcome(object, uninitializedInstanceID)
       IN  /\ replicatedObjects_' = RegisterMap(object, outcome)
           /\ nextReplicatedObjectInstanceId_' = RegisterCounter(outcome)
           /\ alive' = [alive EXCEPT ![object] = (outcome = "ok")]
           /\ instanceId_' = [instanceId_ EXCEPT ![object] =
                 IF outcome = "ok"
                 THEN RegisterInstanceId(uninitializedInstanceID, outcome)
                 ELSE uninitializedInstanceID]
           /\ lastCall' = RegisterCall(object, outcome, uninitializedInstanceID)
           /\ initializeCalls' =
                 RegisterInitializeCalls(object, uninitializedInstanceID, outcome)
    /\ gameState' = <<>>
    /\ UNCHANGED <<mainVars, threadVars, member, netVars, tickRest>>

\* Replicated<Derived>::~Replicated: the object unregisters itself and is gone.
Destroy(object) ==
    /\ pc = "idle"
    /\ alive[object]
    /\ replicatedObjects_' = UnregisterMap(object)
    /\ alive' = [alive EXCEPT ![object] = FALSE]
    /\ instanceId_' = [instanceId_ EXCEPT ![object] = uninitializedInstanceID]
    /\ member' = [member EXCEPT ![object] = 0]
    /\ lastCall' = UnregisterCall(object)
    /\ gameState' = <<>>
    /\ UNCHANGED <<mainVars, threadVars, nextReplicatedObjectInstanceId_, initializeCalls, netVars,
                   tickRest>>

\* A call of registerReplicatedObject by the application, with a live
\* object or with a null pointer.
Register(object) ==
    /\ pc = "idle"
    /\ IF object = nullptr THEN TRUE ELSE alive[object]
    /\ LET current == IF object = nullptr THEN 0 ELSE instanceId_[object]
           outcome == RegisterOutcome(object, current)
       IN  /\ replicatedObjects_' = RegisterMap(object, outcome)
           /\ nextReplicatedObjectInstanceId_' = RegisterCounter(outcome)
           /\ instanceId_' = IF object = nullptr THEN instanceId_
                             ELSE [instanceId_ EXCEPT ![object] =
                                      RegisterInstanceId(current, outcome)]
           /\ lastCall' = RegisterCall(object, outcome, current)
           /\ initializeCalls' = RegisterInitializeCalls(object, current, outcome)
    /\ gameState' = <<>>
    /\ UNCHANGED <<mainVars, threadVars, alive, member, netVars, tickRest>>

\* A call of unregisterReplicatedObject by the application, with a live object.
Unregister(object) ==
    /\ pc = "idle"
    /\ alive[object]
    /\ replicatedObjects_' = UnregisterMap(object)
    /\ lastCall' = UnregisterCall(object)
    /\ gameState' = <<>>
    /\ UNCHANGED <<mainVars, threadVars, nextReplicatedObjectInstanceId_, alive, instanceId_, member,
                   initializeCalls, netVars, tickRest>>

\* TestObject::setTestBool / TestObjectInt::setTestInt.
SetMember(object, value) ==
    /\ pc = "idle"
    /\ alive[object]
    /\ member[object] # value
    /\ member' = [member EXCEPT ![object] = value]
    /\ gameState' = <<>>
    /\ UNCHANGED <<mainVars, threadVars, replicatedObjects_, nextReplicatedObjectInstanceId_, alive,
                   instanceId_, lastCall, initializeCalls, netVars, tickRest>>

\* A call of getReplicatedObjectsSerialized by the application, as the
\* serialization test makes it; gameState holds the vector returned until
\* the application touches the registry or an object again.
GetSerialized ==
    /\ pc = "idle"
    /\ \E order \in BucketOrders :
          gameState' = getReplicatedObjectsSerialized(order)
    /\ UNCHANGED <<mainVars, threadVars, regVars, netVars, tickRest>>

(***************************************************************************)
(* The transport, as the tick engine meets it: the two queues of           *)
(* TcpNetworkProtocol, filled and emptied by its reader and writer.        *)
(***************************************************************************)
ClientIds == 0..(MaxClients - 1)

\* std::nullopt.
nullopt == [clientId |-> -1, body |-> <<>>]

\* What a client writes to its stream: the model tells one payload.
Payload == <<7>>

\* TcpNetworkProtocol::acceptSocket with an accept that succeeds: the socket
\* enters the table, the empty message the queue, and the counter moves on.
AcceptSocket ==
    /\ nextClientId < MaxClients
    /\ Len(incomingMessageQueue_) < MaxIncoming
    /\ sockets_' = (nextClientId :> "socket") @@ sockets_
    /\ incomingMessageQueue_' =
          Append(incomingMessageQueue_, [clientId |-> nextClientId, body |-> <<>>])
    /\ nextClientId' = nextClientId + 1
    /\ thisUpdate' = IF pc = "idle" THEN thisUpdate
                     ELSE [thisUpdate EXCEPT !.arrived = TRUE]
    /\ UNCHANGED <<mainVars, threadVars, regVars, outgoingMessageQueue_, wire, players_, pc, message,
                   gameState, cursor>>

\* TcpNetworkProtocol::processReceive, a read of a ready socket that
\* returns bytes: they enter the queue as one message.
Receive(clientId) ==
    /\ clientId \in DOMAIN sockets_
    /\ sockets_[clientId] = "socket"
    /\ Len(incomingMessageQueue_) < MaxIncoming
    /\ incomingMessageQueue_' =
          Append(incomingMessageQueue_, [clientId |-> clientId, body |-> Payload])
    /\ thisUpdate' = IF pc = "idle" THEN thisUpdate
                     ELSE [thisUpdate EXCEPT !.arrived = TRUE]
    /\ UNCHANGED <<mainVars, threadVars, regVars, outgoingMessageQueue_, sockets_, nextClientId,
                   wire, players_, pc, message, gameState, cursor>>

\* TcpNetworkProtocol::processReceive, a read that returns no bytes: the
\* client is erased from the table.
Disconnect(clientId) ==
    /\ clientId \in DOMAIN sockets_
    /\ sockets_[clientId] = "socket"
    /\ sockets_' = [c \in DOMAIN sockets_ \ {clientId} |-> sockets_[c]]
    /\ UNCHANGED <<mainVars, threadVars, regVars, incomingMessageQueue_, outgoingMessageQueue_,
                   nextClientId, wire, tickVars>>

\* TcpNetworkProtocol::processSend, one turn of its inner loop: the front
\* message is sent when its socket is there, and popped.  sockets_[clientId]
\* puts a null entry in the table when there is none; a short send erases
\* the entry.
ProcessSend(short) ==
    /\ outgoingMessageQueue_ # <<>>
    /\ LET clientId == Head(outgoingMessageQueue_).clientId
           table    == IF clientId \in DOMAIN sockets_ THEN sockets_
                       ELSE (clientId :> "null") @@ sockets_
       IN  sockets_' = IF table[clientId] = "socket" /\ short
                       THEN [c \in DOMAIN table \ {clientId} |-> table[c]]
                       ELSE table
    /\ outgoingMessageQueue_' = Tail(outgoingMessageQueue_)
    /\ UNCHANGED <<mainVars, threadVars, regVars, incomingMessageQueue_, nextClientId, wire, tickVars>>

(***************************************************************************)
(* TcpNetworkProtocol::recieve and send, the two calls of the tick thread. *)
(***************************************************************************)
\* Mutant: recieve() returns the newest message.
recieveBack == IF incomingMessageQueue_ = <<>> THEN nullopt
               ELSE incomingMessageQueue_[Len(incomingMessageQueue_)]

\* The optional recieve() returns.
recieve == IF incomingMessageQueue_ = <<>> THEN nullopt
           ELSE Head(incomingMessageQueue_)

\* The incoming queue after recieve().
recieveQueue == IF incomingMessageQueue_ = <<>> THEN incomingMessageQueue_
                ELSE Tail(incomingMessageQueue_)

\* The outgoing queue after send(msg).
send(msg) == Append(outgoingMessageQueue_, msg)

(***************************************************************************)
(* The transport by itself, traced: its reader (acceptSocket and the reads *)
(* of processReceive), its writer (processSend) and a caller of recieve()  *)
(* and send().  The trace tells the connections and the messages apart:    *)
(* a connection is the number of its accept, the body of a message read or *)
(* passed to send() is its number.                                         *)
(***************************************************************************)
\* The values of a ClientId.
WireClientIds == 0..ClientIdMax

\* Calls of acceptSocket the model makes: enough for the counter to wrap.
MaxAccepts == ClientIdMax + 2

\* The trace.  attempts: calls of acceptSocket; accepted: the client id of
\* every accept that succeeded, in order; refused: the accepts that failed,
\* each with the value of nextClientId and the reason (a null socket, a
\* full socket set); connection: the connection whose
\* socket was last stored under a client id (0: none); reads: reads that
\* returned bytes; queued: the messages the reader pushed, in order;
\* delivered: the messages recieve() returned, in order; polled: the last
\* call of recieve(), the queue it met and what it returned; sendCalls: the
\* messages passed to send(), in order; written: the messages handed to
\* SDLNet_TCP_Send, in order, each with the connection of the socket used,
\* the bytes at the address handed over and the length handed over.
NoWire ==
    [attempts |-> 0, accepted |-> <<>>, refused |-> {},
     connection |-> [clientId \in WireClientIds |-> 0],
     reads |-> 0, queued |-> <<>>, delivered |-> <<>>,
     polled |-> [before |-> <<>>, returned |-> nullopt],
     sendCalls |-> <<>>, written |-> <<>>]

\* Mutant: acceptSocket pushes no message.
acceptSocketQueueSilent == incomingMessageQueue_

\* acceptSocket: incomingMessageQueue_.push({nextClientId, {}}).
acceptSocketQueue ==
    Append(incomingMessageQueue_, [clientId |-> nextClientId, body |-> <<>>])

\* nextClientId++ on a ClientId: unsigned, so the maximum is followed by 0.
acceptSocketNextClientId == (nextClientId + 1) % (ClientIdMax + 1)

\* The clients whose Socket is in the table; each is in socketSet_ from its
\* constructor to its destructor.
Connected == {c \in DOMAIN sockets_ : sockets_[c] = "socket"}

\* The server socket, told from the sockets of the clients, which are
\* named by their client ids.
serverSocket_ == -1

\* What socketSet_ holds: the server socket and the sockets of the table.
socketSet_ == {serverSocket_} \cup Connected

\* SDLNet_AllocSocketSet(maxSockets + 1).
SocketSetCapacity == maxSockets_ + 1

\* Socket::Socket: SDLNet_TCP_AddSocket returns -1 for a set that is full,
\* and the constructor throws.
AddSocketFails == Cardinality(socketSet_) >= SocketSetCapacity

\* Mutant: the left operand of the assignment is evaluated first, so the
\* table has a null entry when the constructor throws.
acceptSocketThrownNull == (nextClientId :> "null") @@ sockets_

\* acceptSocket: sockets_ after the Socket constructor has thrown.
acceptSocketThrown == sockets_

\* TcpNetworkProtocol::acceptSocket.  When SDLNet_TCP_Accept returns null,
\* or the socket set is full, the Socket constructor throws before
\* sockets_[nextClientId] is evaluated (the right operand of the assignment
\* comes first), and false is returned; otherwise the socket is stored, the
\* empty message pushed and the counter incremented.
Accept(accepted) ==
    /\ wire.attempts < MaxAccepts
    /\ accepted => ~AddSocketFails
    /\ IF accepted
       THEN /\ Len(incomingMessageQueue_) < MaxIncoming
            /\ sockets_' = (nextClientId :> "socket") @@ sockets_
            /\ incomingMessageQueue_' = acceptSocketQueue
            /\ nextClientId' = acceptSocketNextClientId
            /\ wire' = [wire EXCEPT
                  !.attempts = @ + 1,
                  !.accepted = Append(@, nextClientId),
                  !.connection[nextClientId] = Len(wire.accepted) + 1,
                  !.queued = Append(@, [clientId |-> nextClientId, body |-> <<>>])]
       ELSE /\ wire' = [wire EXCEPT !.attempts = @ + 1,
                  !.refused = @ \cup {[clientId |-> nextClientId,
                                       why |-> IF AddSocketFails THEN "full"
                                               ELSE "null"]}]
            /\ sockets_' = acceptSocketThrown
            /\ UNCHANGED <<incomingMessageQueue_, nextClientId>>
    /\ UNCHANGED <<mainVars, threadVars, regVars, outgoingMessageQueue_, tickVars>>

\* processReceive, a read of a socket that returns bytes.
Read(clientId) ==
    /\ clientId \in DOMAIN sockets_
    /\ sockets_[clientId] = "socket"
    /\ Len(incomingMessageQueue_) < MaxIncoming
    /\ wire.reads < MaxReads
    /\ LET msg == [clientId |-> clientId, body |-> <<wire.reads + 1>>]
       IN  /\ incomingMessageQueue_' = Append(incomingMessageQueue_, msg)
           /\ wire' = [wire EXCEPT !.reads = @ + 1, !.queued = Append(@, msg)]
    /\ UNCHANGED <<mainVars, threadVars, regVars, outgoingMessageQueue_, sockets_, nextClientId,
                   tickVars>>

\* A call of recieve().
Poll ==
    /\ pc = "idle"
    /\ message' = recieve
    /\ incomingMessageQueue_' = recieveQueue
    /\ wire' = [wire EXCEPT
          !.delivered = IF recieve # nullopt THEN Append(@, recieve) ELSE @,
          !.polled = [before |-> incomingMessageQueue_, returned |-> recieve]]
    /\ UNCHANGED <<mainVars, threadVars, regVars, outgoingMessageQueue_, sockets_, nextClientId,
                   players_, pc, gameState, cursor, thisUpdate>>

\* A call of send(), with a client id of whatever value.
SendCall(clientId) ==
    /\ pc = "idle"
    /\ Len(wire.sendCalls) < MaxSendCalls
    /\ Len(outgoingMessageQueue_) < MaxOutgoing
    /\ LET msg == [clientId |-> clientId, body |-> <<Len(wire.sendCalls) + 1>>]
       IN  /\ outgoingMessageQueue_' = send(msg)
           /\ wire' = [wire EXCEPT !.sendCalls = Append(@, msg)]
    /\ UNCHANGED <<mainVars, threadVars, regVars, incomingMessageQueue_, sockets_, nextClientId,
                   tickVars>>

\* Mutant: processSend leaves the message in the queue.
processSendQueueKeep == outgoingMessageQueue_

\* processSend: outgoingMessageQueue_.pop().
processSendQueue == Tail(outgoingMessageQueue_)

\* The values a byte of the std::vector object itself (its three
\* pointers) may have: whatever the allocator made them, the value of a
\* byte of a body among them.
ObjectBytes == {0, 1}

\* The len bytes SDLNet_TCP_Send reads at its second argument, &body: the
\* address of the vector object, not of its elements, so the bytes of the
\* object (and of what follows it on the stack), of whatever values.
SendData(body) == [1..Len(body) -> ObjectBytes]

\* processSend, one turn of its inner loop (as ProcessSend), traced.
Write(short) ==
    /\ outgoingMessageQueue_ # <<>>
    /\ LET msg      == Head(outgoingMessageQueue_)
           clientId == msg.clientId
           table    == IF clientId \in DOMAIN sockets_ THEN sockets_
                       ELSE (clientId :> "null") @@ sockets_
       IN  /\ sockets_' = IF table[clientId] = "socket" /\ short
                          THEN [c \in DOMAIN table \ {clientId} |-> table[c]]
                          ELSE table
           /\ \E data \in SendData(msg.body) :
                 wire' = IF table[clientId] = "socket"
                         THEN [wire EXCEPT !.written =
                                 Append(@, [connection |-> wire.connection[clientId],
                                            message |-> msg,
                                            data |-> data,
                                            len |-> Len(msg.body)])]
                         ELSE wire
    /\ outgoingMessageQueue_' = processSendQueue
    /\ UNCHANGED <<mainVars, threadVars, regVars, incomingMessageQueue_, nextClientId, tickVars>>

(***************************************************************************)
(* NetworkEngine::update.                                                  *)
(***************************************************************************)
\* What the running update has done: the messages buffered when it was
\* called, the messages it has polled (counted until the reader adds one),
\* the clients it has added to players_, whether the reader put a message
\* in the queue since the call, and the messages it has passed to send().
NoUpdate == [pending |-> 0, polled |-> 0, learned |-> 0, arrived |-> FALSE,
             sent |-> <<>>]

\* The condition of the while loop: the optional holds a message.
LoopsOn(msg) == msg # nullopt

\* Mutant: the client id is pushed back without the search.
LearnAlways(players, clientId) == Append(players, clientId)

\* players_ after the body of the while loop.
Learn(players, clientId) ==
    IF clientId \in Range(players) THEN players ELSE Append(players, clientId)

\* Mutant: an if where the while belongs, one message is polled.
AfterIfBody == "serialize"

\* Where control goes after the body of the while loop: to its condition.
AfterLoopBody == "recieve"

\* Mutant: every turn of the range-for takes the first player.
firstPlayerClientId == players_[1]

\* The element the range-for over players_ is at.
playerClientId == players_[cursor]

\* update() is called.
UpdateCall ==
    /\ pc = "idle"
    /\ Len(outgoingMessageQueue_) + MaxClients <= MaxOutgoing
    /\ pc' = "recieve"
    /\ thisUpdate' = [NoUpdate EXCEPT !.pending = Len(incomingMessageQueue_)]
    /\ UNCHANGED <<mainVars, threadVars, regVars, netVars, players_, message, gameState, cursor>>

\* One evaluation of the while condition, and the loop body when it holds.
UpdateRecieve ==
    /\ pc = "recieve"
    /\ message' = recieve
    /\ incomingMessageQueue_' = recieveQueue
    /\ IF LoopsOn(recieve)
       THEN /\ players_' = Learn(players_, recieve.clientId)
            /\ thisUpdate' =
                  [thisUpdate EXCEPT
                      !.polled = IF thisUpdate.arrived THEN @ ELSE @ + 1,
                      !.learned = Len(Learn(players_, recieve.clientId))
                                     - Len(players_) + @]
            /\ pc' = AfterLoopBody
       ELSE /\ pc' = "serialize"
            /\ UNCHANGED <<players_, thisUpdate>>
    /\ UNCHANGED <<mainVars, threadVars, regVars, outgoingMessageQueue_, sockets_, nextClientId,
                   wire, gameState, cursor>>

\* const gameState = getReplicatedObjectsSerialized(), and the range-for begins.
UpdateSerialize ==
    /\ pc = "serialize"
    /\ \E order \in BucketOrders :
          gameState' = getReplicatedObjectsSerialized(order)
    /\ cursor' = 1
    /\ pc' = "send"
    /\ UNCHANGED <<mainVars, threadVars, regVars, netVars, players_, message, thisUpdate>>

\* One turn of the range-for: send({playerClientId, gameState}).
UpdateSend ==
    /\ pc = "send"
    /\ cursor <= Len(players_)
    /\ LET msg == [clientId |-> playerClientId, body |-> gameState]
       IN  /\ outgoingMessageQueue_' = send(msg)
           /\ thisUpdate' = [thisUpdate EXCEPT !.sent = Append(@, msg)]
    /\ cursor' = cursor + 1
    /\ UNCHANGED <<mainVars, threadVars, regVars, incomingMessageQueue_, sockets_, nextClientId,
                   wire, players_, pc, message, gameState>>

\* The range-for is over and update() returns.
UpdateReturn ==
    /\ pc = "send"
    /\ cursor > Len(players_)
    /\ pc' = "idle"
    /\ message' = nullopt
    /\ gameState' = <<>>
    /\ cursor' = 0
    /\ thisUpdate' = NoUpdate
    /\ UNCHANGED <<mainVars, threadVars, regVars, netVars, players_>>

(***************************************************************************)
(* main and AbstractServer::runMainLoop.                                   *)
(***************************************************************************)
RECURSIVE BitLength(_)
BitLength(x) == IF x = 0 THEN 0 ELSE 1 + BitLength(x \div 2)

RECURSIVE TwoToThe(_)
TwoToThe(n) == IF n = 0 THEN 1 ELSE 2 * TwoToThe(n - 1)

\* The double nearest to x, ties to the even significand.
RoundDouble(x) ==
    IF BitLength(x) <= DoubleSignificandBits THEN x
    ELSE LET ulp == TwoToThe(BitLength(x) - DoubleSignificandBits)
             q   == x \div ulp
             r   == x % ulp
         IN  IF 2 * r > ulp \/ (2 * r = ulp /\ q % 2 = 1)
             THEN (q + 1) * ulp
             ELSE q * ulp

\* serverTime += deltaTime: the float is converted to double, which is
\* exact, and the sum is rounded to a double.
AddDeltaTime(time) == RoundDouble(time + deltaTime)

\* Mutant: update is called whether the server is paused or not.
CallsUpdateAlways == TRUE

\* if (!paused).
CallsUpdate == ~paused

\* Mutant: the loop is left though running is true.
LoopConditionFalse == FALSE

\* while (running).
LoopCondition == running

\* What the main thread has done.  iterations: turns of the while loop
\* begun; nonPaused: turns that found paused false at the if; updates:
\* calls of update; advances: additions to serverTime; stopped: the turn in
\* which running was set to false (0: none); stoppedAt: where in that turn
\* ("events", "update"); raised: where an exception was raised ("none",
\* "construction", "update") and whether it is a std::exception; result:
\* what runMainLoop returned (-1: has not); exitCode: what main returned
\* (-1: has not).
NoLoop ==
    [iterations |-> 0, nonPaused |-> 0, updates |-> 0, advances |-> 0,
     stopped |-> 0, stoppedAt |-> "none", raised |-> "none",
     stdException |-> FALSE, result |-> -1, exitCode |-> -1]

\* Where an exception that leaves the try block of main goes: to the
\* catch (std::exception&) clause, or to std::terminate.
Unwind(stdException) == IF stdException THEN "catch" ELSE "terminate"

\* main: Server server.  The constructors of AbstractServer and of the
\* engine run; an exception of theirs leaves the try block.
ServerConstruct(error, stdException) ==
    /\ mainPc = "main"
    /\ IF error
       THEN /\ mainPc' = Unwind(stdException)
            /\ loop' = [loop EXCEPT !.raised = "construction",
                                    !.stdException = stdException]
       ELSE /\ mainPc' = "while"
            /\ UNCHANGED loop
    /\ UNCHANGED <<running, paused, serverTime, regVars, netVars, tickVars, threadVars>>

\* runMainLoop: the condition of the while loop.
LoopWhile ==
    /\ mainPc = "while"
    /\ IF LoopCondition
       THEN /\ loop.iterations < MaxIterations
            /\ mainPc' = "events"
            /\ loop' = [loop EXCEPT !.iterations = @ + 1]
       ELSE /\ mainPc' = "returned"
            /\ loop' = [loop EXCEPT !.result = 0]
    /\ UNCHANGED <<running, paused, serverTime, regVars, netVars, tickVars, threadVars>>

\* runMainLoop, lines 62 to 71: in a debug build the events are polled,
\* ESC or QUIT clears running, and handleKeyEvents, of the derived class,
\* may set paused; in a release build nothing happens (quit false, pause
\* as paused is).
LoopEvents(quit, pause) ==
    /\ mainPc = "events"
    /\ running' = (running /\ ~quit)
    /\ paused' = pause
    /\ loop' = IF running /\ quit
               THEN [loop EXCEPT !.stopped = loop.iterations, !.stoppedAt = "events"]
               ELSE loop
    /\ mainPc' = "if"
    /\ UNCHANGED <<serverTime, regVars, netVars, tickVars, threadVars>>

\* runMainLoop: if (!paused).
LoopIf ==
    /\ mainPc = "if"
    /\ mainPc' = IF CallsUpdate THEN "update" ELSE "while"
    /\ loop' = IF ~paused THEN [loop EXCEPT !.nonPaused = @ + 1] ELSE loop
    /\ UNCHANGED <<running, paused, serverTime, regVars, netVars, tickVars, threadVars>>

\* runMainLoop: update(deltaTime), the function of the derived class: it
\* may clear running, set paused, and throw.
ServerUpdate(stop, pause, error, stdException) ==
    /\ mainPc = "update"
    /\ running' = (running /\ ~stop)
    /\ paused' = pause
    /\ loop' = [loop EXCEPT
          !.updates = @ + 1,
          !.stopped = IF running /\ stop THEN loop.iterations ELSE @,
          !.stoppedAt = IF running /\ stop THEN "update" ELSE @,
          !.raised = IF error THEN "update" ELSE @,
          !.stdException = IF error THEN stdException ELSE @]
    /\ mainPc' = IF error THEN Unwind(stdException) ELSE "advance"
    /\ UNCHANGED <<serverTime, regVars, netVars, tickVars, threadVars>>

\* runMainLoop: serverTime += deltaTime.
LoopAdvance ==
    /\ mainPc = "advance"
    /\ serverTime' = AddDeltaTime(serverTime)
    /\ loop' = [loop EXCEPT !.advances = @ + 1]
    /\ mainPc' = "while"
    /\ UNCHANGED <<running, paused, regVars, netVars, tickVars, threadVars>>

\* main: runMainLoop has returned, or the catch clause has printed its
\* line: return 0.  After std::terminate the process is aborted, which is
\* no exit code 0 (134 with SIGABRT).
MainReturn ==
    /\ mainPc \in {"returned", "catch", "terminate"}
    /\ mainPc' = "exited"
    /\ loop' = [loop EXCEPT !.exitCode = IF mainPc = "terminate" THEN 134 ELSE 0]
    /\ UNCHANGED <<running, paused, serverTime, regVars, netVars, tickVars, threadVars>>

(***************************************************************************)
(* The three threads of TcpNetworkProtocol and its three mutexes: the      *)
(* reader (processReceive with acceptSocket), the writer (processSend) and *)
(* the thread that calls recieve() and send().  A step is what a thread    *)
(* does between two points where another thread can be seen to act: the    *)
(* locking of a mutex, an access to sockets_, a push or a pop.             *)
(***************************************************************************)
Threads == {"reader", "writer", "tick"}

\* Connections the reader accepts while the threads are followed.
MaxConnections == 2

\* Messages a queue holds while the threads are followed.
MaxPending == 1

\* The client ids send() is called with: those of the first two
\* connections.
SendClientIds == {0, 1}

\* processReceive between two turns of its while loop: no range-for under
\* way, disconnectedClients empty.  remaining: the entries the range-for
\* has yet to visit; clientId: the entry it is at; invalidated: what
\* another thread did to sockets_ while the range-for was under way.
NoScan == [remaining |-> {}, disconnectedClients |-> {}, clientId |-> -1,
           invalidated |-> "no"]

\* Nothing accepted, the process not aborted.
NoTrack == [accepts |-> 0, aborted |-> "no"]

\* Everything the threads of the transport leave alone.
threadRest == <<mainVars, regVars, wire, players_, pc, gameState, cursor,
                thisUpdate, running_, destructor>>

\* The thread holds the mutex in one of the modes.
Holds(thread, mutex, modes) ==
    \E i \in 1..Len(locksHeld[thread]) :
        /\ locksHeld[thread][i].mutex = mutex
        /\ locksHeld[thread][i].mode \in modes

\* The threads that keep the thread from locking the mutex in the mode:
\* every other holder for lock(), the exclusive holder for lock_shared().
Holders(thread, mutex, mode) ==
    {other \in Threads \ {thread} :
        Holds(other, mutex,
              IF mode = "shared" THEN {"exclusive"} ELSE {"shared", "exclusive"})}

\* locksHeld after the lock / the unlock of a mutex, the destruction of
\* every lock object of the thread.
Lock(thread, mutex, mode) ==
    [locksHeld EXCEPT ![thread] = Append(@, [mutex |-> mutex, mode |-> mode])]

Unlock(thread, mutex) ==
    [locksHeld EXCEPT ![thread] = SelectSeq(@, LAMBDA held : held.mutex # mutex)]

UnlockAll(thread) == [locksHeld EXCEPT ![thread] = <<>>]

\* Mutant: acceptSocket locks the queue before the table.
acceptSocketLocksReversed == <<"incomingMessageQueueMutex_", "socketsMutex_">>

\* acceptSocket: std::unique_lock socketsLock(socketsMutex_), later
\* std::lock_guard incomingMessageQueueLock(incomingMessageQueueMutex_).
acceptSocketLocks == <<"socketsMutex_", "incomingMessageQueueMutex_">>

NoLock == [mutex |-> "none", mode |-> "none"]

\* The mutex the thread is about to lock, and how.
Wants(thread) ==
    LET at == threadPc[thread]
        exclusive(mutex) == [mutex |-> mutex, mode |-> "exclusive"]
    IN  IF thread = "reader"
        THEN CASE at = "accept_lock" -> exclusive(acceptSocketLocks[1])
               [] at = "accept_queue_lock" -> exclusive(acceptSocketLocks[2])
               [] at = "shared_lock" -> [mutex |-> "socketsMutex_", mode |-> "shared"]
               [] at = "push_lock" -> exclusive("incomingMessageQueueMutex_")
               [] at = "unique_lock" -> exclusive("socketsMutex_")
               [] OTHER -> NoLock
        ELSE IF thread = "writer"
        THEN IF at = "lock_guard" THEN exclusive("outgoingMessageQueueMutex_")
             ELSE NoLock
        ELSE CASE at = "send_lock" -> exclusive("outgoingMessageQueueMutex_")
               [] at = "recieve_lock" -> exclusive("incomingMessageQueueMutex_")
               [] OTHER -> NoLock

\* Where the thread is once it has the mutex.
AfterLock(thread) ==
    LET at == threadPc[thread]
    IN  CASE at = "accept_lock" -> "accept"
          [] at = "accept_queue_lock" -> "accept_push"
          [] at = "shared_lock" -> "for"
          [] at = "push_lock" -> "push"
          [] at = "unique_lock" -> "erase"
          [] at = "lock_guard" -> "while"
          [] at = "send_lock" -> "send"
          [] at = "recieve_lock" -> "recieve"
          [] OTHER -> at

\* The range-for of processReceive is under way.
Iterating == threadPc["reader"] \in {"for", "recv", "push_lock", "push"}

\* The access to sockets_ the thread is making where it is: operator[] of
\* a key that is absent inserts, and counts as a modification.
Access(thread) ==
    LET at == threadPc[thread]
    IN  IF thread = "reader"
        THEN IF at \in {"accept", "erase"} THEN "write"
             ELSE IF Iterating THEN "read"
             ELSE "none"
        ELSE IF thread = "writer"
        THEN IF at \in {"lookup", "send"}
             THEN IF Head(outgoingMessageQueue_).clientId \in DOMAIN sockets_
                  THEN "read" ELSE "write"
             ELSE IF at = "evict" THEN "write"
             ELSE "none"
        ELSE "none"

\* A thread locks the mutex it is at: lock() or lock_shared() returns when
\* no other thread holds the mutex in a mode that excludes it.  With the
\* shared lock the range-for of processReceive starts.  The lock_guard of
\* processSend is the first statement of a turn of while (running_).
ThreadLock(thread) ==
    /\ track.aborted = "no"
    /\ Wants(thread) # NoLock
    /\ threadPc[thread] = "lock_guard" => running_
    /\ Holders(thread, Wants(thread).mutex, Wants(thread).mode) = {}
    /\ locksHeld' = Lock(thread, Wants(thread).mutex, Wants(thread).mode)
    /\ threadPc' = [threadPc EXCEPT ![thread] = AfterLock(thread)]
    /\ scan' = IF threadPc[thread] = "shared_lock"
               THEN [scan EXCEPT !.remaining = DOMAIN sockets_,
                                 !.invalidated = "no"]
               ELSE scan
    /\ UNCHANGED <<threadRest, track, message, incomingMessageQueue_,
                   outgoingMessageQueue_, sockets_, nextClientId>>

\* Where processReceive goes after acceptSocket: to the range-for when
\* activeSockets is still above 0, to the next turn otherwise.
AfterAccept(more) == IF more THEN "shared_lock" ELSE "check"

\* processReceive, a turn of while (running_): SDLNet_CheckSockets returned
\* a number above 0; the server socket is ready (acceptSocket is called) or
\* it is not (the range-for is next).
ReaderCheck(acceptReady) ==
    /\ track.aborted = "no"
    /\ threadPc["reader"] = "check"
    /\ running_
    /\ acceptReady =>
          /\ track.accepts < MaxConnections
          /\ Len(incomingMessageQueue_) < MaxPending
    /\ threadPc' = [threadPc EXCEPT !["reader"] =
                       IF acceptReady THEN "accept_lock" ELSE "shared_lock"]
    /\ UNCHANGED <<threadRest, locksHeld, scan, track, message,
                   incomingMessageQueue_, outgoingMessageQueue_, sockets_,
                   nextClientId>>

\* acceptSocket: sockets_[nextClientId] = std::make_unique<Socket>(...), or
\* the exception of the Socket constructor, caught: return false.
ReaderAccept(accepted, more) ==
    /\ track.aborted = "no"
    /\ threadPc["reader"] = "accept"
    /\ accepted => ~AddSocketFails
    /\ IF accepted
       THEN /\ sockets_' = (nextClientId :> "socket") @@ sockets_
            /\ track' = [track EXCEPT !.accepts = @ + 1]
            /\ threadPc' = [threadPc EXCEPT !["reader"] = "accept_queue_lock"]
            /\ UNCHANGED locksHeld
       ELSE /\ locksHeld' = UnlockAll("reader")
            /\ threadPc' = [threadPc EXCEPT !["reader"] = AfterAccept(more)]
            /\ UNCHANGED <<sockets_, track>>
    /\ UNCHANGED <<threadRest, scan, message, incomingMessageQueue_,
                   outgoingMessageQueue_, nextClientId>>

\* acceptSocket: the push of the empty message, nextClientId++, return
\* true (both locks go).
ReaderAcceptPush(more) ==
    /\ track.aborted = "no"
    /\ threadPc["reader"] = "accept_push"
    /\ incomingMessageQueue_' = acceptSocketQueue
    /\ nextClientId' = acceptSocketNextClientId
    /\ locksHeld' = UnlockAll("reader")
    /\ threadPc' = [threadPc EXCEPT !["reader"] = AfterAccept(more)]
    /\ UNCHANGED <<threadRest, scan, track, message, outgoingMessageQueue_,
                   sockets_>>

\* processReceive, one turn of the range-for: the socket of the entry is
\* not ready, or SDLNet_TCP_Recv returns bytes (the push is next), or it
\* returns 0 or less (the client id goes to disconnectedClients).
ReaderFor(clientId, received) ==
    /\ track.aborted = "no"
    /\ threadPc["reader"] = "for"
    /\ clientId \in scan.remaining
    /\ received # "none" =>
          /\ clientId \in DOMAIN sockets_
          /\ sockets_[clientId] = "socket"
    /\ received = "bytes" => Len(incomingMessageQueue_) < MaxPending
    /\ scan' = CASE received = "none" ->
                      [scan EXCEPT !.remaining = @ \ {clientId}]
                 [] received = "bytes" ->
                      [scan EXCEPT !.clientId = clientId]
                 [] received = "closed" ->
                      [scan EXCEPT !.remaining = @ \ {clientId},
                                   !.disconnectedClients = @ \cup {clientId}]
    /\ threadPc' = [threadPc EXCEPT !["reader"] =
                       IF received = "bytes" THEN "push_lock" ELSE "for"]
    /\ UNCHANGED <<threadRest, locksHeld, track, message, incomingMessageQueue_,
                   outgoingMessageQueue_, sockets_, nextClientId>>

\* processReceive: incomingMessageQueue_.push({clientId, bytes}) under the
\* queue mutex, which goes at the end of the block.
ReaderPush ==
    /\ track.aborted = "no"
    /\ threadPc["reader"] = "push"
    /\ incomingMessageQueue_' =
          Append(incomingMessageQueue_, [clientId |-> scan.clientId, body |-> Payload])
    /\ locksHeld' = Unlock("reader", "incomingMessageQueueMutex_")
    /\ scan' = [scan EXCEPT !.remaining = @ \ {scan.clientId}, !.clientId = -1]
    /\ threadPc' = [threadPc EXCEPT !["reader"] = "for"]
    /\ UNCHANGED <<threadRest, track, message, outgoingMessageQueue_, sockets_,
                   nextClientId>>

\* processReceive: the range-for is over, the shared lock goes.
ReaderForEnd ==
    /\ track.aborted = "no"
    /\ threadPc["reader"] = "for"
    /\ scan.remaining = {}
    /\ locksHeld' = Unlock("reader", "socketsMutex_")
    /\ threadPc' = [threadPc EXCEPT !["reader"] = "unique_lock"]
    /\ UNCHANGED <<threadRest, scan, track, message, incomingMessageQueue_,
                   outgoingMessageQueue_, sockets_, nextClientId>>

\* processReceive: sockets_.erase(clientId) for every client id of
\* disconnectedClients, under the exclusive lock, and the next turn of the
\* while loop.
ReaderErase ==
    /\ track.aborted = "no"
    /\ threadPc["reader"] = "erase"
    /\ sockets_' = [c \in DOMAIN sockets_ \ scan.disconnectedClients |-> sockets_[c]]
    /\ locksHeld' = Unlock("reader", "socketsMutex_")
    /\ scan' = NoScan
    /\ threadPc' = [threadPc EXCEPT !["reader"] = "check"]
    /\ UNCHANGED <<threadRest, track, message, incomingMessageQueue_,
                   outgoingMessageQueue_, nextClientId>>

\* The range-for goes on over an unordered_map another thread has erased
\* from or inserted into meanwhile: undefined; one outcome is the next
\* turn as if nothing had happened (ReaderFor), another the end of the
\* process on an access to a node that was freed.
ReaderAbort ==
    /\ track.aborted = "no"
    /\ Iterating
    /\ scan.invalidated # "no"
    /\ track' = [track EXCEPT !.aborted = scan.invalidated]
    /\ UNCHANGED <<threadRest, threadPc, locksHeld, scan, message,
                   incomingMessageQueue_, outgoingMessageQueue_, sockets_,
                   nextClientId>>

\* processSend: while (!outgoingMessageQueue_.empty()), under the lock_guard
\* of the turn of the outer loop, which goes when the queue is empty.
WriterWhile ==
    /\ track.aborted = "no"
    /\ threadPc["writer"] = "while"
    /\ IF outgoingMessageQueue_ = <<>>
       THEN /\ locksHeld' = UnlockAll("writer")
            /\ threadPc' = [threadPc EXCEPT !["writer"] = "lock_guard"]
       ELSE /\ threadPc' = [threadPc EXCEPT !["writer"] = "lookup"]
            /\ UNCHANGED locksHeld
    /\ UNCHANGED <<threadRest, scan, track, message, incomingMessageQueue_,
                   outgoingMessageQueue_, sockets_, nextClientId>>

\* sockets_ after sockets_[clientId]: a null pointer is inserted for a key
\* that is absent.
Subscripted(clientId) ==
    IF clientId \in DOMAIN sockets_ THEN sockets_
    ELSE (clientId :> "null") @@ sockets_

\* processSend: if (sockets_[clientId]), with no lock on socketsMutex_;
\* when the pointer is null outgoingMessageQueue_.pop() ends the turn of
\* the inner loop (the writer holds the mutex of the queue all along).
WriterLookup ==
    /\ track.aborted = "no"
    /\ threadPc["writer"] = "lookup"
    /\ LET clientId == Head(outgoingMessageQueue_).clientId
       IN  /\ sockets_' = Subscripted(clientId)
           /\ scan' = IF Iterating /\ clientId \notin DOMAIN sockets_
                         /\ scan.invalidated = "no"
                      THEN [scan EXCEPT !.invalidated = "inserted"]
                      ELSE scan
           /\ IF Subscripted(clientId)[clientId] = "socket"
              THEN /\ threadPc' = [threadPc EXCEPT !["writer"] = "send"]
                   /\ UNCHANGED outgoingMessageQueue_
              ELSE /\ threadPc' = [threadPc EXCEPT !["writer"] = "while"]
                   /\ outgoingMessageQueue_' = processSendQueue
    /\ UNCHANGED <<threadRest, locksHeld, track, message, incomingMessageQueue_,
                   nextClientId>>

\* processSend: SDLNet_TCP_Send(sockets_[clientId]->get(), ...) < body.size().
\* sockets_[clientId] is evaluated again: when the reader has erased the
\* entry since the test it is inserted as a null pointer and ->get() is
\* called on it, which is undefined: the process ends, or the call returns
\* with an error (the result is then below body.size()).  A send that is
\* not short is followed by outgoingMessageQueue_.pop().
WriterSend(short, fault) ==
    /\ track.aborted = "no"
    /\ threadPc["writer"] = "send"
    /\ LET clientId == Head(outgoingMessageQueue_).clientId
       IN  /\ sockets_' = Subscripted(clientId)
           /\ scan' = IF Iterating /\ clientId \notin DOMAIN sockets_
                         /\ scan.invalidated = "no"
                      THEN [scan EXCEPT !.invalidated = "inserted"]
                      ELSE scan
           /\ IF Subscripted(clientId)[clientId] = "socket"
              THEN /\ ~fault
                   /\ threadPc' = [threadPc EXCEPT !["writer"] =
                                      IF short THEN "evict" ELSE "while"]
                   /\ outgoingMessageQueue_' =
                         IF short THEN outgoingMessageQueue_ ELSE processSendQueue
                   /\ UNCHANGED track
              ELSE /\ short
                   /\ threadPc' = [threadPc EXCEPT !["writer"] =
                                      IF fault THEN "send" ELSE "evict"]
                   /\ track' = IF fault THEN [track EXCEPT !.aborted = "disconnected"]
                               ELSE track
                   /\ UNCHANGED outgoingMessageQueue_
    /\ UNCHANGED <<threadRest, locksHeld, message, incomingMessageQueue_,
                   nextClientId>>

\* processSend: sockets_.erase(clientId) after a short send, with no lock
\* on socketsMutex_, and outgoingMessageQueue_.pop().
WriterErase ==
    /\ track.aborted = "no"
    /\ threadPc["writer"] = "evict"
    /\ LET clientId == Head(outgoingMessageQueue_).clientId
       IN  /\ sockets_' = [c \in DOMAIN sockets_ \ {clientId} |-> sockets_[c]]
           /\ scan' = IF Iterating /\ clientId \in DOMAIN sockets_
                      THEN [scan EXCEPT !.invalidated = "erased"]
                      ELSE scan
    /\ outgoingMessageQueue_' = processSendQueue
    /\ threadPc' = [threadPc EXCEPT !["writer"] = "while"]
    /\ UNCHANGED <<threadRest, locksHeld, track, message, incomingMessageQueue_,
                   nextClientId>>

\* The calls the tick thread makes, each at its lock_guard.
TickCalls == {"send_lock", "recieve_lock"}

\* send(): the push under the queue mutex, and the return; the tick
\* thread makes its next call.
TickSend(clientId, next) ==
    /\ track.aborted = "no"
    /\ threadPc["tick"] = "send"
    /\ next = "send_lock" => Len(outgoingMessageQueue_) + 1 < MaxPending
    /\ outgoingMessageQueue_' = send([clientId |-> clientId, body |-> Payload])
    /\ locksHeld' = UnlockAll("tick")
    /\ threadPc' = [threadPc EXCEPT !["tick"] = next]
    /\ UNCHANGED <<threadRest, scan, track, message, incomingMessageQueue_,
                   sockets_, nextClientId>>

\* recieve(): the front of the queue is popped, when there is one, under
\* the queue mutex, and returned to the caller, whose variables are not
\* followed here; the tick thread makes its next call.
TickRecieve(next) ==
    /\ track.aborted = "no"
    /\ threadPc["tick"] = "recieve"
    /\ next = "send_lock" => Len(outgoingMessageQueue_) < MaxPending
    /\ incomingMessageQueue_' = recieveQueue
    /\ locksHeld' = UnlockAll("tick")
    /\ threadPc' = [threadPc EXCEPT !["tick"] = next]
    /\ UNCHANGED <<threadRest, message, scan, track, outgoingMessageQueue_, sockets_,
                   nextClientId>>

(***************************************************************************)
(* The end of the transport.  running_ is a plain bool the thread of the  *)
(* destructor writes while the workers read it; a read is taken to return  *)
(* the value written last, which is what a build gives with a call into    *)
(* SDL_net or a lock of a mutex between two reads.                         *)
(***************************************************************************)
\* processReceive: while (running_) is false, the function returns.
ReaderReturn ==
    /\ track.aborted = "no"
    /\ threadPc["reader"] = "check"
    /\ ~running_
    /\ threadPc' = [threadPc EXCEPT !["reader"] = "returned"]
    /\ UNCHANGED <<threadRest, locksHeld, scan, track, message,
                   incomingMessageQueue_, outgoingMessageQueue_, sockets_,
                   nextClientId>>

\* processSend: while (running_) is false, the function returns.
WriterReturn ==
    /\ track.aborted = "no"
    /\ threadPc["writer"] = "lock_guard"
    /\ ~running_
    /\ threadPc' = [threadPc EXCEPT !["writer"] = "returned"]
    /\ UNCHANGED <<threadRest, locksHeld, scan, track, message,
                   incomingMessageQueue_, outgoingMessageQueue_, sockets_,
                   nextClientId>>

\* processReceive, a turn of the range-for: SDLNet_SocketReady is given
\* socket.get(), the Socket object, where SDL_net expects the TCPsocket
\* (socket->get()); what it reads as the ready flag is the first word of
\* the Socket, the reference socketSet_, which is not zero.  So
\* SDLNet_TCP_Recv is called on a socket that may have nothing to read,
\* and the call does not return until the client sends or closes.
ReaderRecv(clientId) ==
    /\ track.aborted = "no"
    /\ threadPc["reader"] = "for"
    /\ clientId \in scan.remaining
    /\ clientId \in DOMAIN sockets_
    /\ sockets_[clientId] = "socket"
    /\ scan' = [scan EXCEPT !.clientId = clientId]
    /\ threadPc' = [threadPc EXCEPT !["reader"] = "recv"]
    /\ UNCHANGED <<threadRest, locksHeld, track, message, incomingMessageQueue_,
                   outgoingMessageQueue_, sockets_, nextClientId>>

\* The client sends or closes, and SDLNet_TCP_Recv returns: bytes (the push
\* is next) or 0 or less (the client id goes to disconnectedClients).
ReaderRecvReturns(received) ==
    /\ track.aborted = "no"
    /\ threadPc["reader"] = "recv"
    /\ received = "bytes" => Len(incomingMessageQueue_) < MaxPending
    /\ scan' = IF received = "bytes" THEN scan
               ELSE [scan EXCEPT !.remaining = @ \ {scan.clientId},
                                 !.disconnectedClients = @ \cup {scan.clientId},
                                 !.clientId = -1]
    /\ threadPc' = [threadPc EXCEPT !["reader"] =
                       IF received = "bytes" THEN "push_lock" ELSE "for"]
    /\ UNCHANGED <<threadRest, locksHeld, track, message, incomingMessageQueue_,
                   outgoingMessageQueue_, sockets_, nextClientId>>

\* Mutant: the client table is cleared before the threads are joined.
DestructorStepsClearFirst ==
    <<"running_", "sockets_", "recieveThread_", "sendThread_", "serverSocket_",
      "socketSet_">>

\* ~TcpNetworkProtocol: running_ = false, recieveThread_.join(),
\* sendThread_.join(), sockets_.clear(), serverSocket_.reset(),
\* SDLNet_FreeSocketSet(socketSet_).
DestructorSteps ==
    <<"running_", "recieveThread_", "sendThread_", "sockets_", "serverSocket_",
      "socketSet_">>

\* The next step of ~TcpNetworkProtocol, on the thread that called recieve()
\* and send() and is in neither.  join() returns when the function of the
\* thread has returned.
Destructor ==
    /\ track.aborted = "no"
    /\ Len(destructor) < Len(DestructorSteps)
    /\ destructor = <<>> => threadPc["tick"] \in TickCalls
    /\ LET step == DestructorSteps[Len(destructor) + 1]
       IN  /\ step = "recieveThread_" => threadPc["reader"] = "returned"
           /\ step = "sendThread_" => threadPc["writer"] = "returned"
           /\ running_' = IF step = "running_" THEN FALSE ELSE running_
           /\ sockets_' = IF step = "sockets_" THEN <<>> ELSE sockets_
           /\ scan' = IF step = "sockets_" /\ Iterating /\ sockets_ # <<>>
                      THEN [scan EXCEPT !.invalidated = "erased"]
                      ELSE scan
           /\ destructor' = Append(destructor, step)
    /\ threadPc' = [threadPc EXCEPT !["tick"] = "destructor"]
    /\ UNCHANGED <<mainVars, regVars, wire, players_, pc, gameState, cursor,
                   thisUpdate, locksHeld, track, message, incomingMessageQueue_,
                   outgoingMessageQueue_, nextClientId>>

(***************************************************************************)
(* Specifications.                                                         *)
(***************************************************************************)
Init ==
    /\ replicatedObjects_ = <<>>
    /\ nextReplicatedObjectInstanceId_ = 1
    /\ alive = [o \in Addresses |-> FALSE]
    /\ instanceId_ = [o \in Addresses |-> uninitializedInstanceID]
    /\ member = [o \in Addresses |-> 0]
    /\ lastCall = NoCall
    /\ initializeCalls = <<>>
    /\ players_ = <<>>
    /\ incomingMessageQueue_ = <<>>
    /\ outgoingMessageQueue_ = <<>>
    /\ sockets_ = <<>>
    /\ nextClientId = 0
    /\ wire = NoWire
    /\ pc = "idle"
    /\ message = nullopt
    /\ gameState = <<>>
    /\ cursor = 0
    /\ thisUpdate = NoUpdate
    /\ running = TRUE
    /\ paused = FALSE
    /\ serverTime = 0
    /\ mainPc = "main"
    /\ loop = NoLoop
    /\ threadPc = [thread \in Threads |->
                      CASE thread = "reader" -> "check"
                        [] thread = "writer" -> "lock_guard"
                        [] OTHER -> "recieve_lock"]
    /\ locksHeld = [thread \in Threads |-> <<>>]
    /\ scan = NoScan
    /\ track = NoTrack
    /\ running_ = TRUE
    /\ destructor = <<>>

\* The registry under every call the application can make.
Next ==
    \/ \E object \in Objects : Construct(object)
    \/ \E object \in Objects : Destroy(object)
    \/ \E object \in Objects \cup {nullptr} : Register(object)
    \/ \E object \in Objects : Unregister(object)
    \/ \E object \in Objects, value \in FieldValues : SetMember(object, value)
    \/ GetSerialized

Spec == Init /\ [][Next]_vars

\* The main thread, from main to the exit of the process.
NextMain ==
    \/ \E error, stdException \in BOOLEAN : ServerConstruct(error, stdException)
    \/ LoopWhile
    \/ \E quit, pause \in BOOLEAN : LoopEvents(quit, pause)
    \/ LoopIf
    \/ \E stop, pause, error, stdException \in BOOLEAN :
          ServerUpdate(stop, pause, error, stdException)
    \/ LoopAdvance
    \/ MainReturn

SpecMain == Init /\ [][NextMain]_vars

\* The registry with the objects of one class, constructed, registered,
\* unregistered and destroyed in every order.
NextOrder ==
    \/ \E object \in OrderObjects : Construct(object)
    \/ \E object \in OrderObjects : Destroy(object)
    \/ \E object \in OrderObjects : Register(object)
    \/ \E object \in OrderObjects : Unregister(object)

SpecOrder == Init /\ [][NextOrder]_vars

\* The registry with objects of the Replicated base that are constructed
\* and destroyed, and nothing else.
NextLifetime ==
    \/ \E object \in Objects : Construct(object)
    \/ \E object \in Objects : Destroy(object)

SpecLifetime == Init /\ [][NextLifetime]_vars

\* IReplicatable::initializeInstanceId called by the holder of an object
\* that no registry has seen: instanceId_ has the value of its member
\* initializer until a call changes it.
InitializeInstanceId(object, instanceId) ==
    /\ Len(initializeCalls) < MaxInitializeCalls
    /\ instanceId_' = [instanceId_ EXCEPT ![object] =
                          initializeInstanceIdValue(@, instanceId)]
    /\ initializeCalls' =
          Append(initializeCalls,
                 InitializeCall(object, instanceId_[object], instanceId))
    /\ UNCHANGED <<mainVars, threadVars, replicatedObjects_, nextReplicatedObjectInstanceId_, alive,
                   member, lastCall, netVars, tickVars>>

\* Replicated<Derived>::initializeInstanceId under every sequence of calls.
NextInitialize ==
    \E object \in Objects, instanceId \in InstanceIds :
        InitializeInstanceId(object, instanceId)

SpecInitialize == Init /\ [][NextInitialize]_vars

\* The inbound side of the transport: the reader thread and a thread that
\* calls recieve().  What the writer does to the client table, erase the
\* entry of a client, the reader does too.
NextInbound ==
    \/ \E accepted \in BOOLEAN : Accept(accepted)
    \/ \E clientId \in WireClientIds : Read(clientId)
    \/ \E clientId \in WireClientIds : Disconnect(clientId)
    \/ Poll

SpecInbound == Init /\ [][NextInbound]_vars

\* The outbound side of the transport: a thread that calls send() and the
\* writer thread, with the reader where it changes the client table.
NextOutbound ==
    \/ \E accepted \in BOOLEAN : Accept(accepted)
    \/ \E clientId \in WireClientIds : Disconnect(clientId)
    \/ \E clientId \in WireClientIds : SendCall(clientId)
    \/ \E short \in BOOLEAN : Write(short)

SpecOutbound == Init /\ [][NextOutbound]_vars

\* The tick engine between the reader and the writer of the transport, with
\* the application of the serialization test between two updates: it
\* constructs one TestObject and sets its testBool.
TickObjects == {1}

NextTick ==
    \/ \E object \in TickObjects : Construct(object)
    \/ \E object \in TickObjects, value \in FieldValues : SetMember(object, value)
    \/ AcceptSocket
    \/ \E clientId \in ClientIds : Receive(clientId)
    \/ \E clientId \in ClientIds : Disconnect(clientId)
    \/ \E short \in BOOLEAN : ProcessSend(short)
    \/ UpdateCall
    \/ UpdateRecieve
    \/ UpdateSerialize
    \/ UpdateSend
    \/ UpdateReturn

SpecTick == Init /\ [][NextTick]_vars

\* The reader, the writer and the tick thread of the transport, step by
\* step, under every interleaving.
NextThreads ==
    \/ \E thread \in Threads : ThreadLock(thread)
    \/ \E acceptReady \in BOOLEAN : ReaderCheck(acceptReady)
    \/ \E accepted, more \in BOOLEAN : ReaderAccept(accepted, more)
    \/ \E more \in BOOLEAN : ReaderAcceptPush(more)
    \/ \E clientId \in WireClientIds, received \in {"none", "bytes", "closed"} :
          ReaderFor(clientId, received)
    \/ ReaderPush
    \/ ReaderForEnd
    \/ ReaderErase
    \/ ReaderAbort
    \/ WriterWhile
    \/ WriterLookup
    \/ \E short, fault \in BOOLEAN : WriterSend(short, fault)
    \/ WriterErase
    \/ \E clientId \in SendClientIds, next \in TickCalls : TickSend(clientId, next)
    \/ \E next \in TickCalls : TickRecieve(next)

SpecThreads == Init /\ [][NextThreads]_vars

\* The steps of each thread of the transport.
ReaderStep ==
    \/ ThreadLock("reader")
    \/ \E acceptReady \in BOOLEAN : ReaderCheck(acceptReady)
    \/ \E accepted, more \in BOOLEAN : ReaderAccept(accepted, more)
    \/ \E more \in BOOLEAN : ReaderAcceptPush(more)
    \/ \E clientId \in WireClientIds, received \in {"none", "bytes", "closed"} :
          ReaderFor(clientId, received)
    \/ ReaderPush
    \/ ReaderForEnd
    \/ ReaderErase
    \/ ReaderAbort

WriterStep ==
    \/ ThreadLock("writer")
    \/ WriterWhile
    \/ WriterLookup
    \/ \E short, fault \in BOOLEAN : WriterSend(short, fault)
    \/ WriterErase

TickStep ==
    \/ ThreadLock("tick")
    \/ \E clientId \in SendClientIds, next \in TickCalls : TickSend(clientId, next)
    \/ \E next \in TickCalls : TickRecieve(next)

\* The threads under a fair scheduler: a thread that can take a step at
\* every moment from some moment on takes one (each is a std::thread of
\* its own, and SDLNet_CheckSockets, SDLNet_TCP_Recv and SDLNet_TCP_Send
\* are taken to return).  std::mutex promises nothing about which of the
\* threads that wait for it locks it next, so there is no more than weak
\* fairness for a thread at a lock.
SpecThreadsFair ==
    /\ SpecThreads
    /\ WF_vars(ReaderStep)
    /\ WF_vars(WriterStep)
    /\ WF_vars(TickStep)

\* The threads of the transport, the clients of a blocked read, and the
\* destructor.
NextShutdown ==
    \/ NextThreads
    \/ \E clientId \in WireClientIds : ReaderRecv(clientId)
    \/ \E received \in {"bytes", "closed"} : ReaderRecvReturns(received)
    \/ ReaderReturn
    \/ WriterReturn
    \/ Destructor

SpecShutdown == Init /\ [][NextShutdown]_vars

\* The same under a fair scheduler: the reader, the writer and the thread
\* of the destructor each take a step when they can at every moment from
\* some moment on.  Nothing makes a client send or close.
SpecShutdownFair ==
    /\ SpecShutdown
    /\ WF_vars(ReaderStep \/ ReaderReturn
                  \/ \E clientId \in WireClientIds : ReaderRecv(clientId))
    /\ WF_vars(WriterStep \/ WriterReturn)
    /\ WF_vars(Destructor)

(***************************************************************************)
(* Reading a snapshot back: the structure its bytes describe.              *)
(***************************************************************************)
Malformed == [ok |-> FALSE, value |-> <<>>, next |-> 0]

\* The number of entries of a fixmap (first = 128) or fixarray (first = 144)
\* header at position p.
ReadHeader(bytes, p, first) ==
    IF p <= Len(bytes) /\ bytes[p] >= first /\ bytes[p] < first + 16
    THEN [ok |-> TRUE, value |-> bytes[p] - first, next |-> p + 1]
    ELSE Malformed

\* A fixstr at position p.
ReadStr(bytes, p) ==
    IF p <= Len(bytes) /\ bytes[p] >= 160 /\ bytes[p] < 192
          /\ p + (bytes[p] - 160) <= Len(bytes)
    THEN [ok |-> TRUE, value |-> SubSeq(bytes, p + 1, p + (bytes[p] - 160)),
          next |-> p + 1 + (bytes[p] - 160)]
    ELSE Malformed

\* A positive fixint or a uint 8 at position p.
ReadUint(bytes, p) ==
    IF p <= Len(bytes) /\ bytes[p] < 128
    THEN [ok |-> TRUE, value |-> bytes[p], next |-> p + 1]
    ELSE IF p + 1 <= Len(bytes) /\ bytes[p] = 204
    THEN [ok |-> TRUE, value |-> bytes[p + 1], next |-> p + 2]
    ELSE Malformed

\* One member: a boolean or an unsigned integer.
ReadMember(bytes, p) ==
    IF p <= Len(bytes) /\ bytes[p] \in {194, 195}
    THEN [ok |-> TRUE, value |-> [kind |-> "bool", v |-> bytes[p] - 194],
          next |-> p + 1]
    ELSE LET u == ReadUint(bytes, p)
         IN  IF u.ok THEN [u EXCEPT !.value = [kind |-> "int", v |-> u.value]]
             ELSE Malformed

\* n members.
RECURSIVE ReadMembers(_, _, _)
ReadMembers(bytes, p, n) ==
    IF n = 0 THEN [ok |-> TRUE, value |-> <<>>, next |-> p]
    ELSE LET m == ReadMember(bytes, p)
         IN  IF ~m.ok THEN Malformed
             ELSE LET rest == ReadMembers(bytes, m.next, n - 1)
                  IN  IF ~rest.ok THEN Malformed
                      ELSE [rest EXCEPT !.value = <<m.value>> \o @]

\* n entries instance id -> array of members.
RECURSIVE ReadObjects(_, _, _)
ReadObjects(bytes, p, n) ==
    IF n = 0 THEN [ok |-> TRUE, value |-> <<>>, next |-> p]
    ELSE LET id  == ReadUint(bytes, p)
             hdr == IF id.ok THEN ReadHeader(bytes, id.next, 144) ELSE Malformed
             ms  == IF hdr.ok THEN ReadMembers(bytes, hdr.next, hdr.value)
                    ELSE Malformed
             rest == IF ms.ok THEN ReadObjects(bytes, ms.next, n - 1) ELSE Malformed
         IN  IF ~rest.ok THEN Malformed
             ELSE [rest EXCEPT !.value =
                      <<[instanceId |-> id.value, members |-> ms.value]>> \o @]

\* n entries type id -> map of objects.
RECURSIVE ReadBuckets(_, _, _)
ReadBuckets(bytes, p, n) ==
    IF n = 0 THEN [ok |-> TRUE, value |-> <<>>, next |-> p]
    ELSE LET key  == ReadStr(bytes, p)
             hdr  == IF key.ok THEN ReadHeader(bytes, key.next, 128) ELSE Malformed
             objs == IF hdr.ok THEN ReadObjects(bytes, hdr.next, hdr.value)
                     ELSE Malformed
             rest == IF objs.ok THEN ReadBuckets(bytes, objs.next, n - 1)
                     ELSE Malformed
         IN  IF ~rest.ok THEN Malformed
             ELSE [rest EXCEPT !.value =
                      <<[typeId |-> key.value, objects |-> objs.value]>> \o @]

\* The whole snapshot: a map of buckets and nothing after it.
ReadSnapshot(bytes) ==
    LET hdr == ReadHeader(bytes, 1, 128)
        bs  == IF hdr.ok THEN ReadBuckets(bytes, hdr.next, hdr.value) ELSE Malformed
    IN  IF bs.ok /\ bs.next = Len(bytes) + 1 THEN bs ELSE Malformed

\* What the registry holds of one type, as a snapshot describes it.
HeldOfType(typeId) ==
    [i \in 1..Len(replicatedObjects_[typeId]) |->
        LET object == replicatedObjects_[typeId][i]
        IN  [instanceId |-> instanceId_[object],
             members |-> <<[kind |-> IF typeId = "TestObject" THEN "bool" ELSE "int",
                            v |-> member[object]]>>]]

(***************************************************************************)
(* Properties of the registry.                                             *)
(***************************************************************************)
\* The (typeId, index) places of the registry map.
Places == {<<t, i>> : t \in DOMAIN replicatedObjects_, i \in 1..MaxObjects}

At(place) == replicatedObjects_[place[1]][place[2]]

Filled == {pl \in Places : pl[2] <= Len(replicatedObjects_[pl[1]])}

\* C1: after any sequence of register and unregister calls every handle in
\* the registry has an instance id above 0, and the handles at two
\* different places of the registry, of the same or of different types,
\* have different instance ids.
C1_InstanceIdsPositiveDistinct ==
    \A pl \in Filled :
        /\ instanceId_[At(pl)] > uninitializedInstanceID
        /\ \A other \in Filled :
              other # pl => instanceId_[At(other)] # instanceId_[At(pl)]

\* C1 witness: both types hold objects, three in all, and the last of
\* them was registered after an object had been unregistered.
C1_Witness ==
    /\ Cardinality(Filled) = 3
    /\ Cardinality(DOMAIN replicatedObjects_) = 2
    /\ lastCall.op = "register" /\ lastCall.outcome = "ok"
    /\ lastCall.preCounter = 3 /\ Cardinality(Registered) = 3
    /\ \E o \in Objects : alive[o] /\ instanceId_[o] = 3

\* The last call was a register call with an object that was in the vector
\* of its type when the call was made.
RegisteredAgain ==
    /\ lastCall.op = "register"
    /\ lastCall.object # nullptr
    /\ getTypeId(lastCall.object) \in DOMAIN lastCall.pre
    /\ lastCall.object \in Range(lastCall.pre[getTypeId(lastCall.object)])

\* What C6 says of the state after such a call: the map is the one before
\* the call, the object is in it once, and its instance id is unchanged.
AsAfterFirstRegistration ==
    /\ replicatedObjects_ = lastCall.pre
    /\ Cardinality({pl \in Filled : At(pl) = lastCall.object}) = 1
    /\ instanceId_[lastCall.object] = lastCall.preId

\* C6 as claimed: registering an object that is already in the vector of
\* its type fails with AlreadyRegistered, and leaves the registry as the
\* first registration left it.
C6_Original ==
    RegisteredAgain =>
        /\ lastCall.outcome = "AlreadyRegistered"
        /\ AsAfterFirstRegistration

\* C6 amended: registering an object that is already in the vector of its
\* type fails, with IdExhausted when the counter is at its maximum and with
\* AlreadyRegistered otherwise, never with AlreadyInitialized, and leaves
\* the registry as the first registration left it.
C6_AlreadyRegistered ==
    RegisteredAgain =>
        /\ lastCall.outcome =
              IF lastCall.preCounter = InstanceIdMax THEN "IdExhausted"
              ELSE "AlreadyRegistered"
        /\ AsAfterFirstRegistration

\* C6 witness: a second registration was refused with AlreadyRegistered
\* while another object of the type was registered too.
C6_Witness ==
    /\ RegisteredAgain
    /\ lastCall.outcome = "AlreadyRegistered"
    /\ Len(replicatedObjects_[getTypeId(lastCall.object)]) = 2

\* C7: a register call with a non-null object made when the counter is at
\* its maximum fails with IdExhausted; the map, the counter and the
\* object's instance id are what they were.
C7_IdExhausted ==
    (/\ lastCall.op = "register"
     /\ lastCall.object # nullptr
     /\ lastCall.preCounter = InstanceIdMax)
    => /\ lastCall.outcome = "IdExhausted"
       /\ replicatedObjects_ = lastCall.pre
       /\ nextReplicatedObjectInstanceId_ = InstanceIdMax
       /\ instanceId_[lastCall.object] = lastCall.preId

\* C7 witness: a register call of an object that is not registered was
\* refused with IdExhausted while the registry held objects.
C7_Witness ==
    /\ lastCall.op = "register"
    /\ lastCall.outcome = "IdExhausted"
    /\ lastCall.object \notin Registered
    /\ Registered # {}

\* C8 as claimed: after a register call that failed, of whatever kind, the
\* map and the counter are what they were before the call.
C8_Original ==
    (lastCall.op = "register" /\ lastCall.outcome # "ok")
    => /\ replicatedObjects_ = lastCall.pre
       /\ nextReplicatedObjectInstanceId_ = lastCall.preCounter

\* C9 as claimed: no vector of the registry map is empty.
C9_Original ==
    \A t \in DOMAIN replicatedObjects_ : replicatedObjects_[t] # <<>>

\* C10 as claimed: after register(h) directly followed by unregister(h),
\* for an object h that was not registered before the pair, the map is
\* what it was before the pair.
C10_Original ==
    (lastCall.op = "unregister" /\ lastCall.pairPre # NoMap)
    => replicatedObjects_ = lastCall.pairPre

\* The instance ids given by the successful registrations, in the order
\* given.
Given ==
    LET successful == SelectSeq(initializeCalls, LAMBDA call : call.returned)
    IN  [i \in 1..Len(successful) |-> successful[i].instanceId]

\* What C13 says apart from the ids of the first two registrations: the
\* ids given are strictly increasing, so none is given twice, also after
\* its object was unregistered, and the counter is above all of them.
GivenIncreasing ==
    /\ nextReplicatedObjectInstanceId_ >= 1
    /\ \A i, j \in 1..Len(Given) : i < j => Given[i] < Given[j]
    /\ \A i \in 1..Len(Given) : Given[i] < nextReplicatedObjectInstanceId_

\* C13 as claimed: the counter starts at 1, the instance ids given by
\* successive successful registrations are strictly increasing and below
\* the counter, and the first two registrations, of whatever types, get 1
\* and 2.
C13_Original ==
    /\ GivenIncreasing
    /\ Len(Given) >= 1 => Given[1] = 1
    /\ Len(Given) >= 2 => Given[2] = 2

\* The vector of a type in a map, empty when the map has none.
Bucket(map, typeId) == IF typeId \in DOMAIN map THEN map[typeId] ELSE <<>>

\* C14: a register call that succeeds appends the object at the end of the
\* vector of its type and leaves the other vectors as they were; an
\* unregister call removes its object and leaves every other handle where
\* it was relative to the others; so after every call the handles of each
\* vector stand in the order they were registered in, that of their
\* instance ids.
C14_RegistrationOrder ==
    [][lastCall' # lastCall =>
          /\ (lastCall'.op = "register" /\ lastCall'.outcome = "ok") =>
                \A t \in TypeIds :
                   Bucket(replicatedObjects_', t) =
                      IF t = getTypeId(lastCall'.object)
                      THEN Append(Bucket(replicatedObjects_, t), lastCall'.object)
                      ELSE Bucket(replicatedObjects_, t)
          /\ lastCall'.op = "unregister" =>
                \A t \in TypeIds :
                   Bucket(replicatedObjects_', t) =
                      SelectSeq(Bucket(replicatedObjects_, t),
                                LAMBDA h : h # lastCall'.object)
          /\ \A t \in DOMAIN replicatedObjects_' :
                \A i, j \in 1..Len(replicatedObjects_'[t]) :
                   i < j => instanceId_'[replicatedObjects_'[t][i]]
                               < instanceId_'[replicatedObjects_'[t][j]]]_vars

\* C14 witness: the first of three handles of a vector was unregistered,
\* and the two others are left, in their order.
C14_Witness ==
    /\ lastCall.op = "unregister"
    /\ "TestObject" \in DOMAIN lastCall.pre
    /\ Len(lastCall.pre["TestObject"]) = 3
    /\ lastCall.object = lastCall.pre["TestObject"][1]
    /\ "TestObject" \in DOMAIN replicatedObjects_
    /\ replicatedObjects_["TestObject"] =
          <<lastCall.pre["TestObject"][2], lastCall.pre["TestObject"][3]>>

\* C15 as claimed: an unregister call with an object that is in no vector
\* of the registry leaves the map, with its set of types and every vector,
\* and the counter as they were, whether the map has a vector of the
\* object's type or not.
C15_Original ==
    (lastCall.op = "unregister" /\ ~InMap(lastCall.pre, lastCall.object))
    => /\ replicatedObjects_ = lastCall.pre
       /\ nextReplicatedObjectInstanceId_ = lastCall.preCounter

\* C16: when objects are only constructed and destroyed, every object
\* that is alive is at exactly one place of the registry, in the vector of
\* its type, and an object that was destroyed, or whose construction
\* failed, is at none.
C16_HoldsTheLiving ==
    \A object \in Addresses :
        /\ Cardinality({pl \in Filled : At(pl) = object})
              = IF alive[object] THEN 1 ELSE 0
        /\ alive[object] =>
              /\ getTypeId(object) \in DOMAIN replicatedObjects_
              /\ object \in Range(replicatedObjects_[getTypeId(object)])

\* C16 witness: two objects are alive, one of them constructed at the
\* address of an object that was destroyed.
C16_Witness ==
    /\ Cardinality({object \in Objects : alive[object]}) = 2
    /\ \E i, j \in 1..Len(initializeCalls) :
          /\ i < j
          /\ initializeCalls[i].object = initializeCalls[j].object
          /\ alive[initializeCalls[j].object]

(***************************************************************************)
(* Properties of the snapshot.                                             *)
(***************************************************************************)
\* The snapshot of the serialization test.
TestVector == <<129, 170, 84, 101, 115, 116, 79, 98, 106, 101, 99, 116,
                129, 1, 145, 195>>

\* The registry of the serialization test: one TestObject, with instance
\* id 1 and testBool true.
TestRegistry ==
    /\ DOMAIN replicatedObjects_ = {"TestObject"}
    /\ Len(replicatedObjects_["TestObject"]) = 1
    /\ instanceId_[replicatedObjects_["TestObject"][1]] = 1
    /\ member[replicatedObjects_["TestObject"][1]] = 1

\* C2: the bytes getReplicatedObjectsSerialized returns read back as a map
\* with one entry per type of the registry, its key the type id and its
\* value a map with one entry per object of the type, in the vector's
\* order, from the instance id to the array of the members; and for the
\* registry of the serialization test they are the 16 bytes of the test.
C2_SnapshotLayout ==
    gameState # <<>> =>
        LET read == ReadSnapshot(gameState)
        IN  /\ read.ok
            /\ Len(read.value) = Cardinality(DOMAIN replicatedObjects_)
            /\ \A t \in DOMAIN replicatedObjects_ :
                  \E i \in 1..Len(read.value) :
                     /\ read.value[i].typeId = TypeIdBytes(t)
                     /\ read.value[i].objects = HeldOfType(t)
            /\ (TestRegistry => gameState = TestVector)

\* C2 witness: the snapshot of the registry of the serialization test.
C2_Witness ==
    /\ TestRegistry
    /\ gameState # <<>>
    /\ pc = "idle"

(***************************************************************************)
(* Properties of the tick engine.                                          *)
(***************************************************************************)
\* The messages one update is to send when its range-for has made n turns.
Served(n) == [i \in 1..n |-> [clientId |-> players_[i], body |-> gameState]]

\* The range-for of the running update is over.
AllSent == pc = "send" /\ cursor > Len(players_)

\* C3: the messages an update passes to send() are, in the order of
\* players_ and one for each of its elements, the players as they stand
\* after the while loop of this update, each with the gameState this
\* update serialized; so when the range-for is over every player, learned
\* in this update or before, has been sent exactly one message.
C3_OneSendPerPlayer ==
    /\ pc = "send" =>
          /\ cursor - 1 <= Len(players_)
          /\ thisUpdate.sent = Served(cursor - 1)
    /\ AllSent =>
          \A clientId \in ClientIds :
             Cardinality({i \in 1..Len(thisUpdate.sent) :
                             thisUpdate.sent[i].clientId = clientId})
                = IF clientId \in Range(players_) THEN 1 ELSE 0

\* C3 witness: an update that learned a client, and knew one before, has
\* sent its messages to both.
C3_Witness ==
    /\ AllSent
    /\ Len(players_) = 2
    /\ thisUpdate.learned = 1
    /\ Len(thisUpdate.sent) = 2

\* C4: when the while loop of an update is over and the reader has put no
\* message in the queue since update was called, the queue is empty and
\* the update has polled every message that was buffered at the call; and
\* until the loop is over nothing is serialized and nothing is sent.
C4_DrainsInbound ==
    /\ (pc \in {"serialize", "send"} /\ ~thisUpdate.arrived) =>
          /\ incomingMessageQueue_ = <<>>
          /\ thisUpdate.polled = thisUpdate.pending
    /\ pc \in {"recieve", "serialize"} =>
          /\ gameState = <<>>
          /\ thisUpdate.sent = <<>>

\* C4 witness: two messages were buffered at the call, and the loop is over.
C4_Witness ==
    /\ pc = "serialize"
    /\ ~thisUpdate.arrived
    /\ thisUpdate.pending = 2
    /\ thisUpdate.polled = 2

IsPrefix(s, t) == Len(s) <= Len(t) /\ SubSeq(t, 1, Len(s)) = s

NoDuplicates(s) == \A i, j \in 1..Len(s) : i # j => s[i] # s[j]

\* C5: no step removes or moves an element of players_, no client id is in
\* it twice, and a step of update that polls a message leaves the
\* message's client id in it, added at the end when it was not there.
C5_PlayersAdditive ==
    [][/\ IsPrefix(players_, players_')
       /\ NoDuplicates(players_')
       /\ Len(players_') <= Len(players_) + 1
       /\ Len(incomingMessageQueue_') < Len(incomingMessageQueue_) =>
             /\ Head(incomingMessageQueue_).clientId \in Range(players_')
             /\ (Head(incomingMessageQueue_).clientId \in Range(players_)
                   => players_' = players_)]_vars

\* C5 witness: two clients are in players_, the first of them has sent a
\* second message, polled by now, and has disconnected.
C5_Witness ==
    /\ Len(players_) = 2
    /\ players_[1] \notin DOMAIN sockets_
    /\ message.clientId = players_[1]
    /\ message.body = Payload

(***************************************************************************)
(* Properties of initializeInstanceId.                                     *)
(***************************************************************************)
\* The positions of the calls made on one object, in the order made.
CallsOn(object) ==
    {i \in 1..Len(initializeCalls) : initializeCalls[i].object = object}

OfClient(messages, clientId) ==
    SelectSeq(messages, LAMBDA msg : msg.clientId = clientId)

\* C17: for every client id, the first message with that id recieve()
\* returns has an empty body, and so has the first with that id among the
\* messages returned and those still in the queue: the empty message of
\* acceptSocket is in the queue before any message read from the client.
C17_ConnectMessageFirst ==
    \A clientId \in WireClientIds :
        LET delivered == OfClient(wire.delivered, clientId)
            pushed    == OfClient(wire.delivered \o incomingMessageQueue_, clientId)
        IN  /\ delivered # <<>> => delivered[1].body = <<>>
            /\ pushed # <<>> => pushed[1].body = <<>>

\* C17 witness: recieve() has returned the empty message of the second
\* client and then a message read from that client, while a message read
\* from the first client had been returned before.
C17_Witness ==
    /\ Len(OfClient(wire.delivered, 1)) = 2
    /\ OfClient(wire.delivered, 1)[2].body # <<>>
    /\ Len(OfClient(wire.delivered, 0)) = 2
    /\ wire.delivered[3].clientId = 0

\* C18: recieve() returns nullopt when the queue is empty and the oldest
\* message otherwise, and the messages it has returned followed by those
\* in the queue are the messages the reader pushed, in the order pushed:
\* none is lost, returned twice or out of its order, so the messages of
\* each client come in the order they were read.
C18_PollFifo ==
    /\ wire.polled.returned =
          IF wire.polled.before = <<>> THEN nullopt ELSE wire.polled.before[1]
    /\ wire.delivered \o incomingMessageQueue_ = wire.queued
    /\ \A clientId \in WireClientIds :
          \A i, j \in 1..Len(OfClient(wire.delivered, clientId)) :
             (i < j /\ OfClient(wire.delivered, clientId)[i].body # <<>>
                    /\ OfClient(wire.delivered, clientId)[j].body # <<>>)
             => OfClient(wire.delivered, clientId)[i].body[1]
                   < OfClient(wire.delivered, clientId)[j].body[1]

\* C18 witness: the last call of recieve() met a queue of two messages,
\* and by now it has returned two messages read from one client.
C18_Witness ==
    /\ Len(wire.polled.before) = 2
    /\ \E clientId \in WireClientIds :
          Len(SelectSeq(OfClient(wire.delivered, clientId),
                        LAMBDA msg : msg.body # <<>>)) = 2

\* C19: every message handed to SDLNet_TCP_Send was passed to send(), is
\* handed to the socket of a connection accepted under the client id of
\* the message, and of two messages with the same client id handed over
\* the first was passed to send() before the second: none is handed over
\* twice or out of its order.
C19_SendOrder ==
    /\ \A i \in 1..Len(wire.written) :
          /\ \E k \in 1..Len(wire.sendCalls) :
                wire.sendCalls[k] = wire.written[i].message
          /\ wire.written[i].connection \in 1..Len(wire.accepted)
          /\ wire.accepted[wire.written[i].connection]
                = wire.written[i].message.clientId
    /\ \A i, j \in 1..Len(wire.written) :
          (i < j /\ wire.written[i].message.clientId
                      = wire.written[j].message.clientId)
          => wire.written[i].message.body[1] < wire.written[j].message.body[1]

\* C19 witness: two messages of one client were handed over, and between
\* the calls of send() for them send() was called for another client.
C19_Witness ==
    /\ Len(wire.written) >= 2
    /\ \E i, j \in 1..Len(wire.written) :
          /\ i < j
          /\ wire.written[i].message.clientId = wire.written[j].message.clientId
          /\ wire.written[i].message.body = <<1>>
          /\ wire.written[j].message.body = <<3>>
          /\ wire.sendCalls[2].clientId # wire.written[i].message.clientId

\* C20 as claimed: the n-th connection accepted gets the client id n - 1,
\* so no two connections get the same, and a socket in the table is
\* stored under the client id its connection was accepted with.
C20_Original ==
    /\ \A n \in 1..Len(wire.accepted) : wire.accepted[n] = n - 1
    /\ \A clientId \in DOMAIN sockets_ :
          sockets_[clientId] = "socket" =>
             /\ wire.connection[clientId] \in 1..Len(wire.accepted)
             /\ wire.accepted[wire.connection[clientId]] = clientId

\* C21 as claimed: the length of the outbound queue stays under a fixed
\* bound whatever the rates of send() and of the writer; here under the
\* number of calls of send() made, the least bound that says anything.
C21_Original ==
    Len(outgoingMessageQueue_) < MaxSendCalls

(***************************************************************************)
(* Properties of the main loop.                                            *)
(***************************************************************************)
\* The main thread is between two turns of the loop, or past the loop,
\* and no exception has cut a turn short.
BetweenTurns ==
    /\ mainPc \in {"while", "returned", "exited"}
    /\ loop.raised = "none"

\* What C23 says of the calls of update: a turn that finds paused false
\* calls update once and then adds to serverTime once, a turn that finds
\* paused true does neither.
UpdatePerTurn ==
    /\ loop.advances <= loop.updates
    /\ loop.updates <= loop.advances + 1
    /\ mainPc = "advance" => loop.updates = loop.advances + 1
    /\ mainPc \in {"events", "if", "update"} => loop.updates = loop.advances
    /\ mainPc \in {"events", "if"} => loop.updates = loop.nonPaused
    /\ BetweenTurns =>
          /\ loop.updates = loop.nonPaused
          /\ loop.advances = loop.nonPaused

\* serverTime after n additions of deltaTime to 0.0.
RECURSIVE Accumulated(_)
Accumulated(n) ==
    IF n = 0 THEN 0 ELSE RoundDouble(Accumulated(n - 1) + deltaTime)

\* C23 as claimed: update is called once, and serverTime advanced once,
\* in every turn that is not paused and in no other, and between turns
\* serverTime is deltaTime times the number of turns that were not paused.
C23_Original ==
    /\ UpdatePerTurn
    /\ BetweenTurns => serverTime = deltaTime * loop.nonPaused

\* C23 amended: update is called once, and serverTime advanced once, in
\* every turn that is not paused and in no other, and between turns
\* serverTime is the double that so many additions of deltaTime to 0.0
\* give: deltaTime times the number of turns that were not paused as long
\* as that product is a double, the products rounded one after the other
\* from then on.
C23_TickAccounting ==
    /\ UpdatePerTurn
    /\ BetweenTurns =>
          /\ serverTime = Accumulated(loop.nonPaused)
          /\ BitLength(deltaTime * loop.nonPaused) <= DoubleSignificandBits
                => serverTime = deltaTime * loop.nonPaused

\* C23 witness: a run with turns that were paused and turns that were
\* not, long enough for serverTime to differ from the product.
C23_Witness ==
    /\ BetweenTurns
    /\ loop.nonPaused >= 2
    /\ loop.iterations > loop.nonPaused
    /\ serverTime # deltaTime * loop.nonPaused

\* C24: runMainLoop returns only when running is false, and returns 0;
\* the turn in which running was set to false is the last one begun, and
\* it is not cut short: when it found paused false its update and its
\* addition to serverTime have both been made by the time the loop is
\* left.  (A turn whose update throws is left by the exception.)
C24_CooperativeStop ==
    /\ mainPc = "returned" =>
          /\ ~running
          /\ loop.result = 0
          /\ loop.stopped = loop.iterations
          /\ loop.updates = loop.nonPaused
          /\ loop.advances = loop.nonPaused
    /\ loop.stopped # 0 => loop.iterations = loop.stopped
    /\ (running /\ loop.raised = "none") =>
          mainPc \in {"main", "while", "events", "if", "update", "advance"}

\* C24 witness: running was set to false by the update of the third turn,
\* serverTime was advanced after that, and runMainLoop has returned.
C24_Witness ==
    /\ mainPc = "returned"
    /\ loop.stopped = 3
    /\ loop.stoppedAt = "update"
    /\ loop.advances = 3

\* C25 as claimed: the loop is left only when running is false; after an
\* update that threw the main thread is still in the loop.
C25_Original ==
    /\ loop.raised = "update" =>
          mainPc \in {"while", "events", "if", "update", "advance"}
    /\ mainPc \in {"returned", "catch", "terminate"} /\ loop.iterations > 0
          => ~running

\* C26 as claimed: the exit code of the process is 0 when no exception
\* was raised by the construction of the server or in the main loop, and
\* not 0 when one was.
C26_Original ==
    mainPc = "exited" => (loop.exitCode = 0 <=> loop.raised = "none")

(***************************************************************************)
(* The round trip of the snapshot.                                         *)
(***************************************************************************)
\* The TypeId a key of the outer map stands for.
TypeIdOfKey(key) == CHOOSE t \in TypeIds : TypeIdBytes(t) = key

\* TypeId -> (InstanceId -> members), as the registry holds it.
HeldStructure ==
    [t \in DOMAIN replicatedObjects_ |->
        LET held == HeldOfType(t)
        IN  [id \in {held[i].instanceId : i \in DOMAIN held} |->
                held[CHOOSE i \in DOMAIN held : held[i].instanceId = id].members]]

\* TypeId -> (InstanceId -> members), as the entries read from a snapshot
\* give it.
DecodedStructure(buckets) ==
    [t \in {TypeIdOfKey(buckets[i].typeId) : i \in DOMAIN buckets} |->
        LET objects ==
                buckets[CHOOSE i \in DOMAIN buckets :
                            TypeIdOfKey(buckets[i].typeId) = t].objects
        IN  [id \in {objects[j].instanceId : j \in DOMAIN objects} |->
                objects[CHOOSE j \in DOMAIN objects :
                            objects[j].instanceId = id].members]]

\* No key is written twice, in the outer map or in an inner one, and every
\* key of the outer map is a TypeId.
KeysDistinct(buckets) ==
    /\ \A i \in DOMAIN buckets :
          /\ \E t \in TypeIds : TypeIdBytes(t) = buckets[i].typeId
          /\ \A j \in DOMAIN buckets :
                buckets[i].typeId = buckets[j].typeId => i = j
          /\ \A j, k \in DOMAIN buckets[i].objects :
                buckets[i].objects[j].instanceId = buckets[i].objects[k].instanceId
                   => j = k

\* C27: the bytes getReplicatedObjectsSerialized returns decode, whatever
\* the order the map was iterated in, without a key written twice, to the
\* structure TypeId -> (InstanceId -> members) that the registry holds.
C27_RoundTrip ==
    gameState # <<>> =>
        LET read == ReadSnapshot(gameState)
        IN  /\ read.ok
            /\ KeysDistinct(read.value)
            /\ DecodedStructure(read.value) = HeldStructure

\* C27 witness: the snapshot of a registry of both types and three
\* objects, a boolean false and an integer 1 among the members.
C27_Witness ==
    /\ gameState # <<>>
    /\ Cardinality(DOMAIN replicatedObjects_) = 2
    /\ Cardinality(Registered) = 3
    /\ \E o \in Registered : getTypeId(o) = "TestObject" /\ member[o] = 0
    /\ \E o \in Registered : getTypeId(o) = "TestObjectInt" /\ member[o] = 1

(***************************************************************************)
(* The bytes the writer hands over.                                        *)
(***************************************************************************)
\* C28 as claimed: for every message taken from the outbound queue whose
\* client has a socket, the bytes handed to SDLNet_TCP_Send are the bytes
\* of the body of the message, body.size() of them.
C28_Original ==
    \A i \in 1..Len(wire.written) :
        /\ wire.written[i].len = Len(wire.written[i].message.body)
        /\ wire.written[i].data = wire.written[i].message.body

(***************************************************************************)
(* Properties of the threads of the transport.                             *)
(***************************************************************************)
\* The step is an eviction: the erase of processReceive, for the clients of
\* disconnectedClients, or the erase of processSend, for the client of the
\* message a short send was made for.
ReaderEvicts == threadPc["reader"] = "erase" /\ threadPc'["reader"] = "check"

WriterEvicts == threadPc["writer"] = "evict" /\ threadPc'["writer"] = "while"

\* The messages of a queue that are not from or for one of the clients.
OfOthers(queue, clientIds) ==
    SelectSeq(queue, LAMBDA msg : msg.clientId \notin clientIds)

\* The step removes the entries of the clients from sockets_ and leaves
\* every other entry, and the messages of the other clients in both
\* queues, as they are.
Contained(clientIds) ==
    /\ DOMAIN sockets_' = DOMAIN sockets_ \ clientIds
    /\ \A c \in DOMAIN sockets_' : sockets_'[c] = sockets_[c]
    /\ OfOthers(incomingMessageQueue_', clientIds)
          = OfOthers(incomingMessageQueue_, clientIds)
    /\ OfOthers(outgoingMessageQueue_', clientIds)
          = OfOthers(outgoingMessageQueue_, clientIds)

\* C22 as claimed: the eviction of a client, after a read that returned 0
\* or less or after a short send, removes the entry of that client only
\* and leaves the other entries and the messages queued as they are, and
\* the reader and the writer go on with the other clients: no eviction
\* ends the process.
C22_Original ==
    /\ [][/\ ReaderEvicts => Contained(scan.disconnectedClients)
          /\ WriterEvicts => Contained({Head(outgoingMessageQueue_).clientId})]_vars
    /\ [](track.aborted \notin {"erased", "disconnected"})

\* C29 as claimed: a thread that inserts into sockets_ or erases from it
\* holds socketsMutex_ exclusively, a thread that looks up or iterates
\* holds it shared or exclusively, and no thread modifies sockets_ while
\* another thread reads or modifies it.
C29_Original ==
    /\ \A thread \in Threads :
          /\ Access(thread) = "write" =>
                Holds(thread, "socketsMutex_", {"exclusive"})
          /\ Access(thread) = "read" =>
                Holds(thread, "socketsMutex_", {"shared", "exclusive"})
    /\ \A thread, other \in Threads :
          thread # other => ~(Access(thread) = "write" /\ Access(other) # "none")

\* The thread waits for a mutex another thread holds.
Blocked(thread) ==
    /\ Wants(thread) # NoLock
    /\ Holders(thread, Wants(thread).mutex, Wants(thread).mode) # {}

\* Every thread of the set waits for a mutex a thread of the set holds.
Deadlocked(threads) ==
    /\ threads # {}
    /\ \A thread \in threads :
          /\ Blocked(thread)
          /\ Holders(thread, Wants(thread).mutex, Wants(thread).mode) \cap threads # {}

QueueMutexes == {"incomingMessageQueueMutex_", "outgoingMessageQueueMutex_"}

\* C30: a thread holds at most two mutexes; when it holds two the first
\* it locked is socketsMutex_ and the second a queue mutex, so no thread
\* holds both queue mutexes; and no set of threads is deadlocked, each
\* waiting for a mutex one of the others holds.
C30_LockOrder ==
    /\ \A thread \in Threads :
          LET held == locksHeld[thread]
          IN  /\ Len(held) <= 2
              /\ Len(held) = 2 =>
                    /\ held[1].mutex = "socketsMutex_"
                    /\ held[2].mutex \in QueueMutexes
              /\ ~(\A mutex \in QueueMutexes : Holds(thread, mutex, {"exclusive"}))
    /\ \A threads \in SUBSET Threads : ~Deadlocked(threads)

\* C30 witness: the reader holds socketsMutex_ and the inbound queue mutex,
\* the writer holds the outbound queue mutex, and the tick thread waits in
\* recieve() for the mutex the reader holds.
C30_Witness ==
    /\ Len(locksHeld["reader"]) = 2
    /\ Holds("writer", "outgoingMessageQueueMutex_", {"exclusive"})
    /\ threadPc["tick"] = "recieve_lock"
    /\ Blocked("tick")

(***************************************************************************)
(* Properties of the client table.                                         *)
(***************************************************************************)
\* The step takes, in processSend, a message whose client has no entry in
\* sockets_ from the outbound queue.
WritesToAbsent ==
    /\ outgoingMessageQueue_ # <<>>
    /\ outgoingMessageQueue_' = processSendQueue
    /\ Head(outgoingMessageQueue_).clientId \notin DOMAIN sockets_

\* C33 as claimed: once the entry of a client is erased the table has no
\* entry under its id again, whatever is sent to it: a message for a
\* client that has no entry is taken from the outbound queue without a
\* send and without a change of the table.
C33_Original ==
    [][WritesToAbsent =>
          /\ sockets_' = sockets_
          /\ wire'.written = wire.written]_vars

\* The step is a call of acceptSocket that returns false.
AcceptFails ==
    /\ wire'.attempts = wire.attempts + 1
    /\ wire'.accepted = wire.accepted

\* C34: a call of acceptSocket that fails leaves sockets_ (no entry is
\* added, not a null one either), nextClientId and the inbound queue as
\* they are, and the accepts that succeed get the client ids in the
\* order of the counter, whatever calls failed between them.
C34_FailedAcceptNoChange ==
    /\ [][AcceptFails =>
            /\ sockets_' = sockets_
            /\ nextClientId' = nextClientId
            /\ incomingMessageQueue_' = incomingMessageQueue_
            /\ wire'.queued = wire.queued]_vars
    /\ [](\A n \in 1..Len(wire.accepted) :
             wire.accepted[n] = (n - 1) % (ClientIdMax + 1))

\* C34 witness: an accept failed on a null socket when nextClientId was 1,
\* and the second accept that succeeded got the client id 1.
C34_Witness ==
    /\ [clientId |-> 1, why |-> "null"] \in wire.refused
    /\ wire.accepted = <<0, 1>>
    /\ 1 \in Connected

\* C37 as claimed: sockets_ never has more than maxSockets_ entries and
\* socketSet_ never more than maxSockets_ + 1 sockets.
C37_Original ==
    /\ Cardinality(DOMAIN sockets_) <= maxSockets_
    /\ Cardinality(socketSet_) <= maxSockets_ + 1

\* C38 as claimed: for every client id one message with an empty body is
\* put into the inbound queue, when a connection is accepted under it, and
\* no other; the other messages are those of the reads that returned
\* bytes, one each, with the bytes read as body.
C38_Original ==
    /\ \A clientId \in WireClientIds :
          Len(SelectSeq(wire.queued,
                        LAMBDA msg : msg.clientId = clientId /\ msg.body = <<>>))
             = IF clientId \in Range(wire.accepted) THEN 1 ELSE 0
    /\ Len(SelectSeq(wire.queued, LAMBDA msg : msg.body # <<>>)) = wire.reads


(***************************************************************************)
(* Properties of the locks held across network I/O.                        *)
(***************************************************************************)

\* The writer is at SDLNet_TCP_Send on the socket of a client.
WriterSending == threadPc["writer"] = "send"

\* C31: the writer does not hold the mutex of the outbound queue, the
\* mutex send() locks, while it sends on the socket of a client.
C31_Original ==
    WriterSending => ~Holds("writer", "outgoingMessageQueueMutex_", {"exclusive"})

(***************************************************************************)
(* Properties of progress under a fair scheduler.                          *)
(***************************************************************************)

\* The process has ended on an undefined access to sockets_.
Aborted == track.aborted # "no"

\* C32: the writer does not spin on the mutex of the outbound queue while
\* the queue is empty, so under weak fairness of the threads the tick
\* thread that is at the lock_guard of send() obtains the mutex (the push
\* and the return are its next step).
C32_Original ==
    (threadPc["tick"] = "send_lock") ~> (threadPc["tick"] = "send" \/ Aborted)

\* The writer pops the front of the outbound queue.
WriterPops ==
    /\ outgoingMessageQueue_ # <<>>
    /\ outgoingMessageQueue_' = processSendQueue

\* C39: a message send() has put into the outbound queue is removed from
\* it by the writer in the end, whatever the client it is for: the writer
\* pops again and again, or the queue is empty from some moment on (the
\* queue is first in, first out, so a message that stayed for ever would
\* be one the writer has stopped popping before).
C39_Original == []<><<WriterPops>>_vars \/ <>[](outgoingMessageQueue_ = <<>>)

(***************************************************************************)
(* Properties of a registration that follows an unregistration.            *)
(***************************************************************************)

\* The last call was a register call with an object whose instance id was
\* set already and which was in no vector of the map.
RegisteredInitialized ==
    /\ lastCall.op = "register"
    /\ lastCall.object # nullptr
    /\ lastCall.preId # uninitializedInstanceID
    /\ ~InMap(lastCall.pre, lastCall.object)

\* What C40 says of the state after such a call: the object is in no
\* vector of the map and its instance id is what it was.
NotRegisteredAgain ==
    /\ ~InMap(replicatedObjects_, lastCall.object)
    /\ instanceId_[lastCall.object] = lastCall.preId

\* C40 as claimed: a register call with an object whose instance id is set
\* and which is not in the registry fails with AlreadyInitialized; the
\* object is in no vector afterwards and keeps its instance id.
C40_Original ==
    RegisteredInitialized =>
        /\ lastCall.outcome = "AlreadyInitialized"
        /\ NotRegisteredAgain

\* C40 amended: such a call fails, with IdExhausted when the counter is at
\* its maximum and with AlreadyInitialized otherwise; the object is in no
\* vector afterwards and keeps its instance id.
C40_AlreadyInitialized ==
    RegisteredInitialized =>
        /\ lastCall.outcome =
              IF lastCall.preCounter = InstanceIdMax THEN "IdExhausted"
              ELSE "AlreadyInitialized"
        /\ NotRegisteredAgain

\* C40 witness: an object that was registered and unregistered was refused
\* with AlreadyInitialized, while another object is registered.
C40_Witness ==
    /\ RegisteredInitialized
    /\ lastCall.outcome = "AlreadyInitialized"
    /\ \E call \in Range(initializeCalls) :
          call.object = lastCall.object /\ call.returned
    /\ Registered # {}

(***************************************************************************)
(* Properties of the end of the transport.                                 *)
(***************************************************************************)

\* The steps the destructor has taken.
Done(step) == step \in Range(destructor)

\* What the destructor has destroyed so far.
Destroyed == Range(destructor) \cap {"sockets_", "serverSocket_", "socketSet_"}

\* The function of the worker has returned.
Returned(thread) == threadPc[thread] = "returned"

\* C35: the destructor clears running_, then joins both workers, and only
\* then destroys the client table, the server socket and the socket set,
\* in that order; once something is destroyed both workers have returned,
\* and no worker takes a step (which would be a read or a write of the
\* table, of a socket or of the socket set).
C35_ShutdownOrder ==
    /\ [](/\ running_ <=> ~Done("running_")
          /\ Done("recieveThread_") \/ Done("sendThread_") => Done("running_")
          /\ Done("sockets_") => Done("recieveThread_") /\ Done("sendThread_")
          /\ Done("serverSocket_") => Done("sockets_") /\ sockets_ = <<>>
          /\ Done("socketSet_") => Done("serverSocket_")
          /\ Destroyed # {} => Returned("reader") /\ Returned("writer"))
    /\ [][Destroyed # {} =>
             UNCHANGED <<threadPc["reader"], threadPc["writer"], scan, locksHeld>>]_vars

\* C35 witness: the destructor has destroyed the table, the server socket
\* and the socket set, after the reader had accepted a client and after
\* both workers had returned.
C35_Witness ==
    /\ destructor = DestructorSteps
    /\ track.accepts > 0
    /\ Returned("reader") /\ Returned("writer")

\* C36: once running_ is false both workers return and the destructor
\* comes to its end.
C36_Original == (~running_) ~> (Done("socketSet_") \/ Aborted)

====
